---- MODULE Spec2Model ----
(***************************************************************************)
(* A model of the parkinson-web-test browser application: the IndexedDB    *)
(* record store in its two prototypes (the primary DatabaseManager of      *)
(* unnamed/part_002 and the extended one of src/services/database.js),     *)
(* and the voice recorder in its two implementations (unnamed/part_000     *)
(* and the class listed in README.md).                                     *)
(*                                                                         *)
(* Conventions.  Text values are sequences of one-character strings, so    *)
(* that trim / toLowerCase / includes are computed.  Time (Date.now and    *)
(* the ISO timestamps derived from it) is the integer `now`.  A Blob is    *)
(* [size, chunks].  An identifier handed to the store is a number (0 for    *)
(* the number zero), NoNumber when it is missing, or NotNumeric when it is *)
(* a text that is no number (the Patient ID field is free text).           *)
(*                                                                         *)
(* Storage engine.  A request of a transaction may fail (the `fail`        *)
(* input of the store actions); a failed request aborts its transaction    *)
(* and rolls back what the transaction wrote.  A transaction whose         *)
(* requests all succeeded commits.  Transactions over a common object      *)
(* store run one after the other, so a store operation is one step.        *)
(***************************************************************************)
EXTENDS Integers, Sequences, FiniteSets, TLC

\* ------------------------------------------------------------------ bounds
MaxTime == 1          \* the clock runs 0..MaxTime
MaxPatients == 2      \* keys the patients key generator hands out
MaxRecordings == 2    \* keys the recordings key generator hands out
MaxCapTime == MaxTime + 2   \* the clock runs 0..MaxCapTime where durations are measured
MaxChunks == 1        \* data chunks the recorder buffers
MaxPending == 1       \* getUserMedia requests in flight
MaxInFlight == 2      \* store requests of the Patient Workflow in flight

\* --------------------------------------------------------- program constants
DB_VERSION == 1       \* CONFIG.DATABASE.VERSION
DefaultLimit == 100   \* searchPatients: limit = 100
MIN_NAME_LENGTH == 2  \* CONFIG.VALIDATION.MIN_NAME_LENGTH
MAX_NAME_LENGTH == 50 \* CONFIG.VALIDATION.MAX_NAME_LENGTH
MIN_AGE == 18         \* CONFIG.VALIDATION.MIN_AGE
MAX_AGE == 120        \* CONFIG.VALIDATION.MAX_AGE

\* ----------------------------------------------------------------- JS values
NULL == "<null>"
UNDEFINED == "<undefined>"
NoTime == 0 - 1       \* an absent timestamp (undefined updatedAt / dateTime)
NoNumber == 0 - 1     \* an absent number (undefined limit / fileSize / id)
NotNumeric == 0 - 2   \* a text that is no number: Number(x) and parseInt(x) are NaN

LowerChar(c) ==
    CASE c = "J" -> "j"
      [] c = "O" -> "o"
      [] c = "A" -> "a"
      [] c = "L" -> "l"
      [] OTHER -> c

\* String.prototype.toLowerCase
ToLowerCase(s) == [i \in 1..Len(s) |-> LowerChar(s[i])]

RECURSIVE TrimStart(_)
TrimStart(s) == IF s # <<>> /\ Head(s) = " " THEN TrimStart(Tail(s)) ELSE s

RECURSIVE TrimEnd(_)
TrimEnd(s) ==
    IF s # <<>> /\ s[Len(s)] = " " THEN TrimEnd(SubSeq(s, 1, Len(s) - 1)) ELSE s

\* String.prototype.trim
Trim(s) == TrimEnd(TrimStart(s))

\* String.prototype.includes
Includes(s, t) ==
    \E i \in 0..(Len(s) - Len(t)) : SubSeq(s, i + 1, i + Len(t)) = t

\* JS truthiness of a text value: the empty string is falsy
TruthyText(s) == s # <<>>

\* `x || null` on a string atom ("" is falsy)
OrNull(x) == IF x = "" THEN NULL ELSE x

\* --------------------------------------------------------------------- state
VARIABLES
    impl,        \* DatabaseManager class the page loaded: "none", "primary", "extended"
    ready,       \* readyPromise: "none", "pending", "fulfilled", "rejected"
    dbOpen,      \* this.db is an open connection
    idbVersion,  \* IndexedDB: version of parkinson_test_db (0: does not exist)
    idbStores,   \* IndexedDB: the object stores, [name, autoIncrement]
    patients,    \* IndexedDB: records of the patients store
    recordings,  \* IndexedDB: records of the recordings store
    assignments, \* IndexedDB: records of the test-assignments store
    patKey,      \* key generator of the patients store
    recKey,      \* key generator of the recordings store
    now,         \* wall clock
    last,        \* the last call and its outcome (what the caller observed)
    vr,               \* which VoiceRecorder the page runs ("none": not constructed)
    currentPatient,   \* PatientManager.currentPatient
    isEditing,        \* PatientManager.isEditing
    isRecording,      \* VoiceRecorder: isRecording (README: state.isRecording)
    isPaused,         \* isPaused (README: state.isPaused)
    hasRecording,     \* README: state.hasRecording
    mediaRecorder,    \* NULL or the state of the MediaRecorder
    startTime,        \* startTime (README: timer.startTime)
    pausedDuration,   \* pausedDuration (README: timer.pausedDuration)
    recordingDuration,\* recordingDuration (README: timer.totalDuration)
    audioChunks,      \* audioChunks (README: recorder.audioChunks)
    recordingBlob,    \* recordingBlob (README: recorder.recordingBlob)
    micPending,       \* getUserMedia requests not yet answered
    stopPending,      \* MediaRecorder.stop() called, its task not yet run
    pending,          \* store requests of the Patient Workflow not yet answered, oldest first
    orphaned,         \* history: a live stream and MediaRecorder are no longer referenced
    startedFor,       \* history: id of the current patient when the capture started
    carried,          \* history: chunks in the buffer when the capture started
    recorded,         \* history: clock time spent recording, unpaused, this session
    path              \* history: how far the session follows start-pause-resume-stop

storeVars == <<impl, ready, dbOpen, idbVersion, idbStores, patients, recordings,
               assignments, patKey, recKey>>
capVars == <<vr, currentPatient, isEditing, isRecording, isPaused, hasRecording, mediaRecorder,
             startTime, pausedDuration, recordingDuration, audioChunks, recordingBlob,
             micPending, stopPending, pending, orphaned, startedFor, carried, recorded, path>>
vars == <<storeVars, now, last, capVars>>

PATIENTS_TABLE == "patients"
RECORDINGS_TABLE == "recordings"
ASSIGNMENTS_TABLE == "test-assignments"

Impls == {"primary", "extended"}

\* ------------------------------------------------------------ opening the store
\* createTables, run by onupgradeneeded: the stores (with their indexes) after
\* it and whether it threw
CreateTables(i, stores) ==
    LET names == {s.name : s \in stores}
        add(ss, n, auto, idx) ==
            IF n \in {s.name : s \in ss} THEN ss
            ELSE ss \cup {[name |-> n, autoIncrement |-> auto, indexes |-> idx]}
    IN  IF i = "primary"
        THEN [threw |-> FALSE,
              stores |-> add(add(stores, PATIENTS_TABLE, TRUE,
                                 {"firstName", "lastName", "dateOfBirth"}),
                             RECORDINGS_TABLE, TRUE, {"patientId", "dateTime"})]
        ELSE IF PATIENTS_TABLE \notin names
             \* createObjectStore(patients, {keyPath:'id'}) and then the
             \* undeclared `patientStore` is read: ReferenceError
             THEN [threw |-> TRUE, stores |-> add(stores, PATIENTS_TABLE, FALSE, {})]
             ELSE [threw |-> FALSE,
                   stores |-> add(add(stores, RECORDINGS_TABLE, TRUE,
                                      {"patientId", "dateTime", "mimeType",
                                       "patientDateTime"}),
                                  ASSIGNMENTS_TABLE, FALSE, {"patientId"})]

\* recordingData without an audioBlob; a recorder without a recording
NoBlob == [size |-> NoNumber, chunks |-> <<>>]

\* PatientManager.currentPatient when it is null
NoPatient == [id |-> 0]

\* the fields the constructors of PatientManager and VoiceRecorder set
CapFresh ==
    [currentPatient |-> NoPatient, isRecording |-> FALSE, isPaused |-> FALSE,
     hasRecording |-> FALSE, mediaRecorder |-> NULL, startTime |-> NoTime,
     pausedDuration |-> 0, recordingDuration |-> 0, audioChunks |-> <<>>,
     recordingBlob |-> NoBlob]

\* a page load leaves no PatientManager or VoiceRecorder of the page before
CapReset ==
    /\ vr' = "none"
    /\ currentPatient' = CapFresh.currentPatient
    /\ isEditing' = FALSE
    /\ isRecording' = CapFresh.isRecording
    /\ isPaused' = CapFresh.isPaused
    /\ hasRecording' = CapFresh.hasRecording
    /\ mediaRecorder' = CapFresh.mediaRecorder
    /\ startTime' = CapFresh.startTime
    /\ pausedDuration' = CapFresh.pausedDuration
    /\ recordingDuration' = CapFresh.recordingDuration
    /\ audioChunks' = CapFresh.audioChunks
    /\ recordingBlob' = CapFresh.recordingBlob
    /\ micPending' = 0
    /\ stopPending' = FALSE
    /\ pending' = <<>>
    /\ orphaned' = FALSE
    /\ startedFor' = 0
    /\ carried' = 0
    /\ recorded' = 0
    /\ path' = "idle"

\* new DatabaseManager(): this.db = null; this.readyPromise = this.init()
LoadPage(i) ==
    /\ impl' = i
    /\ ready' = "pending"
    /\ dbOpen' = FALSE
    /\ last' = [op |-> "load", arg |-> i, ok |-> TRUE]
    /\ CapReset
    /\ UNCHANGED <<idbVersion, idbStores, patients, recordings, assignments,
                   patKey, recKey, now>>

\* indexedDB.open(name, version) completes: an upgrade runs createTables when
\* the stored version is older; an exception in the upgrade handler aborts the
\* upgrade (nothing of it is kept) and the open request fails
OpenDatabase ==
    /\ ready = "pending"
    /\ LET upgrade == idbVersion < DB_VERSION
           ct == CreateTables(impl, idbStores)
           opened == ~upgrade \/ ~ct.threw
       IN  /\ idbVersion' = IF upgrade /\ opened THEN DB_VERSION ELSE idbVersion
           /\ idbStores' = IF upgrade /\ opened THEN ct.stores ELSE idbStores
           /\ ready' = IF opened THEN "fulfilled" ELSE "rejected"
           /\ dbOpen' = opened
           /\ last' = [op |-> "open", arg |-> impl, ok |-> opened]
    /\ UNCHANGED capVars
    /\ UNCHANGED <<impl, patients, recordings, assignments, patKey, recKey, now>>

\* the wall clock advances, up to max
ClockTick(max) ==
    /\ now < max
    /\ now' = now + 1
    /\ UNCHANGED <<storeVars, last, vr, currentPatient, isEditing, isRecording,
                   isPaused,
                   hasRecording, mediaRecorder, startTime, pausedDuration,
                   recordingDuration, audioChunks, recordingBlob, micPending,
                   stopPending, pending, orphaned, startedFor, carried>>

\* the history variables, which no statement of the program reads or writes
hist == <<recorded, path, orphaned, startedFor, carried>>

Tick == ClockTick(MaxTime) /\ UNCHANGED hist

\* an ensureReady that does not look at this.db
UsableOnceOpened == ready = "fulfilled"

\* `await this.readyPromise` / ensureReady has returned normally
Usable == ready = "fulfilled" /\ dbOpen

\* the await has settled, so the body of an operation runs (or it rejects)
Settled == ready \in {"fulfilled", "rejected"}
\* this.db.transaction(names, mode) throws NotFoundError for a missing store
HasStores(names) == names \subseteq {s.name : s \in idbStores}
IsAuto(n) == \E s \in idbStores : s.name = n /\ s.autoIncrement

Init ==
    /\ impl = "none"
    /\ ready = "none"
    /\ dbOpen = FALSE
    /\ idbVersion = 0
    /\ idbStores = {}
    /\ patients = {}
    /\ recordings = {}
    /\ assignments = {}
    /\ patKey = 0
    /\ recKey = 0
    /\ now = 0
    /\ last = [op |-> "none", arg |-> "none", ok |-> TRUE]
    /\ vr = "none"
    /\ currentPatient = CapFresh.currentPatient
    /\ isEditing = FALSE
    /\ isRecording = CapFresh.isRecording
    /\ isPaused = CapFresh.isPaused
    /\ hasRecording = CapFresh.hasRecording
    /\ mediaRecorder = CapFresh.mediaRecorder
    /\ startTime = CapFresh.startTime
    /\ pausedDuration = CapFresh.pausedDuration
    /\ recordingDuration = CapFresh.recordingDuration
    /\ audioChunks = CapFresh.audioChunks
    /\ recordingBlob = CapFresh.recordingBlob
    /\ micPending = 0
    /\ stopPending = FALSE
    /\ pending = <<>>
    /\ orphaned = FALSE
    /\ startedFor = 0
    /\ carried = 0
    /\ recorded = 0
    /\ path = "idle"

\* -------------------------------------------------------------- result lists
Min(a, b) == IF a < b THEN a ELSE b

RECURSIVE SumOver(_, _)
SumOver(S, f) ==
    IF S = {} THEN 0
    ELSE LET x == CHOOSE y \in S : TRUE IN f[x] + SumOver(S \ {x}, f)

\* getAll(): the records of a store in key order
RECURSIVE GetAll(_)
GetAll(S) ==
    IF S = {} THEN <<>>
    ELSE LET x == CHOOSE y \in S : \A z \in S : y.id <= z.id
         IN  <<x>> \o GetAll(S \ {x})

\* Array.prototype.sort is stable: x goes behind every element it does not
\* strictly precede.  cmp[<<a, b>>] is the comparator's value on (a, b).
RECURSIVE SortedInsert(_, _, _)
SortedInsert(s, x, cmp) ==
    IF s = <<>> THEN <<x>>
    ELSE IF cmp[<<x, Head(s)>>] < 0 THEN <<x>> \o s
         ELSE <<Head(s)>> \o SortedInsert(Tail(s), x, cmp)

RECURSIVE StableSort(_, _)
StableSort(s, cmp) ==
    IF s = <<>> THEN <<>>
    ELSE SortedInsert(StableSort(SubSeq(s, 1, Len(s) - 1), cmp), s[Len(s)], cmp)

Range(s) == {s[i] : i \in 1..Len(s)}

\* Array.prototype.slice(0, n) for n >= 0
Slice0(s, n) == SubSeq(s, 1, Min(n, Len(s)))

\* ---------------------------------------------------------- patient operations
\* the record addPatient stores
PatientRecord(i, f, id, t) ==
    IF i = "primary"
    THEN [id |-> id, firstName |-> f.firstName, lastName |-> f.lastName,
          dateOfBirth |-> f.dateOfBirth, gender |-> f.gender,
          createdAt |-> t, updatedAt |-> NoTime]
    ELSE [id |-> id, firstName |-> Trim(f.firstName), lastName |-> Trim(f.lastName),
          dateOfBirth |-> OrNull(f.dateOfBirth), gender |-> OrNull(f.gender),
          createdAt |-> t, updatedAt |-> t]

\* addPatient's own check of its argument (extended prototype only)
AddPatientThrows(i, f) ==
    i = "extended" /\ (~TruthyText(f.firstName) \/ ~TruthyText(f.lastName))

\* addPatient(patientData)
AddPatient(f, fail) ==
    /\ impl \in Impls
    /\ LET invalid == AddPatientThrows(impl, f)
           canRun == Usable /\ HasStores({PATIENTS_TABLE}) /\ IsAuto(PATIENTS_TABLE)
           ok == ~invalid /\ canRun /\ ~fail
           id == patKey + 1
       IN  /\ invalid \/ Settled
           /\ fail => ~invalid /\ canRun
           /\ ~invalid /\ canRun => patKey < MaxPatients
           /\ patients' = IF ok THEN patients \cup {PatientRecord(impl, f, id, now)}
                          ELSE patients
           /\ patKey' = IF ok THEN id ELSE patKey
           /\ last' = [op |-> "addPatient", arg |-> f, ok |-> ok, fail |-> fail,
                       ret |-> IF ok THEN id ELSE 0, idsBefore |-> {p.id : p \in patients}]
    /\ UNCHANGED capVars
    /\ UNCHANGED <<impl, ready, dbOpen, idbVersion, idbStores, recordings, assignments,
                   recKey, now>>

\* what getPatient resolves with: request.result (primary), request.result || null
GetPatientRet(i, ps, id) ==
    [recs |-> {p \in ps : p.id = id},
     missing |-> IF i = "primary" THEN UNDEFINED ELSE NULL]

\* getPatient(patientId): the key is parseInt(patientId) / Number(patientId)
GetPatient(id, fail) ==
    /\ impl \in Impls
    /\ LET invalid == impl = "extended" /\ id = 0
           \* store.get(NaN) throws DataError: NaN is no valid key
           canRun == Usable /\ HasStores({PATIENTS_TABLE}) /\ id # NotNumeric
           ok == ~invalid /\ canRun /\ ~fail
       IN  /\ invalid \/ Settled
           /\ fail => ~invalid /\ canRun
           /\ last' = [op |-> "getPatient", arg |-> id, ok |-> ok, fail |-> fail,
                       ret |-> IF ok THEN GetPatientRet(impl, patients, id)
                               ELSE GetPatientRet(impl, {}, id)]
    /\ UNCHANGED capVars
    /\ UNCHANGED <<storeVars, now>>

\* searchPatients with the sort comparing (a, b) instead of (b, a)
SearchResultOldestFirst(ps, c) ==
    LET all == GetAll(ps)
        byFirst ==
            IF TruthyText(c.firstName)
            THEN SelectSeq(all, LAMBDA p :
                     Includes(ToLowerCase(p.firstName), Trim(ToLowerCase(c.firstName))))
            ELSE all
        sorted == StableSort(byFirst, [ab \in Range(byFirst) \X Range(byFirst) |->
                                           ab[1].createdAt - ab[2].createdAt])
        limit == IF c.limit = NoNumber THEN DefaultLimit ELSE c.limit
    IN  SubSeq(sorted, 1, Min(limit, Len(sorted)))

\* the list searchPatients resolves with
SearchResult(ps, c) ==
    LET all == GetAll(ps)
        byFirst ==
            IF TruthyText(c.firstName)
            THEN SelectSeq(all, LAMBDA p :
                     Includes(ToLowerCase(p.firstName), Trim(ToLowerCase(c.firstName))))
            ELSE all
        byLast ==
            IF TruthyText(c.lastName)
            THEN SelectSeq(byFirst, LAMBDA p :
                     Includes(ToLowerCase(p.lastName), Trim(ToLowerCase(c.lastName))))
            ELSE byFirst
        byDob ==
            IF c.dateOfBirth # ""
            THEN SelectSeq(byLast, LAMBDA p : p.dateOfBirth = c.dateOfBirth)
            ELSE byLast
        \* (a, b) => new Date(b.createdAt) - new Date(a.createdAt)
        sorted == StableSort(byDob, [ab \in Range(byDob) \X Range(byDob) |->
                                         ab[2].createdAt - ab[1].createdAt])
        limit == IF c.limit = NoNumber THEN DefaultLimit ELSE c.limit
    IN  Slice0(sorted, limit)

\* searchPatients(searchCriteria), extended prototype
SearchPatients(c, fail) ==
    /\ impl = "extended"
    /\ Settled
    /\ LET canRun == Usable /\ HasStores({PATIENTS_TABLE})
           ok == canRun /\ ~fail
       IN  /\ fail => canRun
           /\ last' = [op |-> "searchPatients", arg |-> c, ok |-> ok, fail |-> fail,
                       ret |-> IF ok THEN SearchResult(patients, c) ELSE <<>>]
    /\ UNCHANGED capVars
    /\ UNCHANGED <<storeVars, now>>

\* ------------------------------------------------------------- input domains
Jo == <<"J", "o">>
Al == <<"A", "l">>
Lee == <<"L", "e", "e">>

FirstNames == {Jo, Al}
PatientInputs ==
    [firstName : FirstNames, lastName : {Lee}, dateOfBirth : {"1970-01-01"},
     gender : {"F"}]
SearchTerms == {<<"j", "O">>, <<"o", " ">>, <<>>}
SearchInputs ==
    [firstName : SearchTerms, lastName : {<<>>}, dateOfBirth : {""},
     limit : {NoNumber} \cup (0..MaxPatients)]
PatientIds == 0..MaxPatients
LookupIds == PatientIds \cup {NotNumeric}

\* ------------------------------------------------- the patient side of the store
NextPat ==
    \/ \E i \in Impls : LoadPage(i)
    \/ OpenDatabase
    \/ Tick
    \/ \E f \in PatientInputs, fail \in BOOLEAN : AddPatient(f, fail)
    \/ \E id \in PatientIds, fail \in BOOLEAN : GetPatient(id, fail)
    \/ \E c \in SearchInputs, fail \in BOOLEAN : SearchPatients(c, fail)

SpecPat == Init /\ [][NextPat]_vars

\* -------------------------------------------------------- recording operations
\* the record addRecording stores (without metadata, which no operation reads)
RecordingRecord(i, rd, id, t) ==
    IF i = "primary"
    THEN [id |-> id, patientId |-> rd.patientId, dateTime |-> t,
          audioBlob |-> rd.audioBlob, duration |-> rd.duration,
          mimeType |-> rd.mimeType, fileSize |-> rd.fileSize, createdAt |-> NoTime]
    ELSE [id |-> id, patientId |-> rd.patientId,
          dateTime |-> IF rd.dateTime = NoTime THEN t ELSE rd.dateTime,
          audioBlob |-> rd.audioBlob,
          duration |-> IF rd.duration \in {NoNumber, 0} THEN 0 ELSE rd.duration,
          mimeType |-> IF rd.mimeType \in {UNDEFINED, ""} THEN "audio/wav" ELSE rd.mimeType,
          fileSize |-> IF rd.fileSize \in {NoNumber, 0} THEN rd.audioBlob.size
                       ELSE rd.fileSize,
          createdAt |-> t]

\* addRecording's own check of its argument (extended prototype only)
AddRecordingThrows(i, rd) ==
    i = "extended" /\ (rd.patientId = 0 \/ rd.audioBlob = NoBlob)

\* what addRecording(recordingData) does to the recordings store and what it
\* resolves with (ok: resolved; ret: the new key)
AddRecordingOutcome(rd, fail) ==
    LET invalid == AddRecordingThrows(impl, rd)
        canRun == Usable /\ HasStores({RECORDINGS_TABLE}) /\ IsAuto(RECORDINGS_TABLE)
        ok == ~invalid /\ canRun /\ ~fail
        id == recKey + 1
    IN  [ok |-> ok,
         ret |-> IF ok THEN id ELSE 0,
         recordings |-> IF ok THEN recordings \cup {RecordingRecord(impl, rd, id, now)}
                        ELSE recordings,
         recKey |-> IF ok THEN id ELSE recKey,
         mayFail |-> ~invalid /\ canRun,
         runs |-> invalid \/ Settled]

\* addRecording(recordingData)
AddRecording(rd, fail) ==
    /\ impl \in Impls
    /\ LET out == AddRecordingOutcome(rd, fail)
       IN  /\ out.runs
           /\ fail => out.mayFail
           /\ out.mayFail => recKey < MaxRecordings
           /\ recordings' = out.recordings
           /\ recKey' = out.recKey
           /\ last' = [op |-> "addRecording", arg |-> rd, ok |-> out.ok, fail |-> fail,
                       ret |-> out.ret]
    /\ UNCHANGED capVars
    /\ UNCHANGED <<impl, ready, dbOpen, idbVersion, idbStores, patients, assignments,
                   patKey, now>>

\* the list getPatientRecordings resolves with: index('patientId').getAll(id),
\* which the extended prototype then sorts by dateTime
PatientRecordingsRet(i, rs, id, order) ==
    LET found == GetAll({r \in rs : r.patientId = id})
    IN  IF i = "primary" THEN found
        ELSE StableSort(found, [ab \in Range(found) \X Range(found) |->
                 IF order = "desc" THEN ab[2].dateTime - ab[1].dateTime
                 ELSE ab[1].dateTime - ab[2].dateTime])

\* getPatientRecordings(patientId, sortOrder = 'desc')
GetPatientRecordings(id, order, fail) ==
    /\ impl \in Impls
    /\ LET invalid == impl = "extended" /\ id = 0
           canRun == Usable /\ HasStores({RECORDINGS_TABLE})
           ok == ~invalid /\ canRun /\ ~fail
           sortOrder == IF order = UNDEFINED THEN "desc" ELSE order
       IN  /\ invalid \/ Settled
           /\ fail => ~invalid /\ canRun
           /\ last' = [op |-> "getPatientRecordings", arg |-> id, order |-> order,
                       ok |-> ok, fail |-> fail,
                       ret |-> IF ok THEN PatientRecordingsRet(impl, recordings, id, sortOrder)
                               ELSE <<>>]
    /\ UNCHANGED capVars
    /\ UNCHANGED <<storeVars, now>>

\* deletePatient with each delete committed on its own.  Its requests: 1 the
\* index getAll, 2..k+1 the delete of each of the k recordings found, k+2 the
\* delete of the patient; request failAt fails, the earlier ones stay done.
DeletePatientTwoTransactions(ps, rs, id, failAt) ==
    IF failAt = 0
    THEN [ok |-> TRUE, patients |-> {p \in ps : p.id # id},
          recordings |-> {r \in rs : r.patientId # id}]
    ELSE LET recs == GetAll({r \in rs : r.patientId = id})
             done == IF failAt >= 2 THEN Range(SubSeq(recs, 1, failAt - 2)) ELSE {}
         IN  [ok |-> FALSE, patients |-> ps, recordings |-> rs \ done]

\* deletePatient that deletes the patient and forgets the recordings
DeletePatientOnly(ps, rs, id, failAt) ==
    IF failAt = 0
    THEN [ok |-> TRUE, patients |-> {p \in ps : p.id # id}, recordings |-> rs]
    ELSE [ok |-> FALSE, patients |-> ps, recordings |-> rs]

\* The outcome of the one readwrite transaction of deletePatient over the
\* patients and recordings stores: all of its deletes, or (a request failed,
\* the transaction aborted) none of them.
DeletePatientTx(ps, rs, id, failAt) ==
    IF failAt = 0
    THEN [ok |-> TRUE, patients |-> {p \in ps : p.id # id},
          recordings |-> {r \in rs : r.patientId # id}]
    ELSE [ok |-> FALSE, patients |-> ps, recordings |-> rs]

\* deletePatient(patientId), extended prototype
DeletePatient(id, failAt) ==
    /\ impl = "extended"
    /\ LET invalid == id = 0
           canRun == Usable /\ HasStores({PATIENTS_TABLE, RECORDINGS_TABLE})
           k == Cardinality({r \in recordings : r.patientId = id})
           tx == IF ~invalid /\ canRun
                 THEN DeletePatientTx(patients, recordings, id, failAt)
                 ELSE [ok |-> FALSE, patients |-> patients, recordings |-> recordings]
       IN  /\ invalid \/ Settled
           /\ failAt # 0 => ~invalid /\ canRun /\ failAt <= k + 2
           /\ patients' = tx.patients
           /\ recordings' = tx.recordings
           /\ last' = [op |-> "deletePatient", arg |-> id, ok |-> tx.ok, failAt |-> failAt,
                       patientsBefore |-> patients, recordingsBefore |-> recordings]
    /\ UNCHANGED capVars
    /\ UNCHANGED <<impl, ready, dbOpen, idbVersion, idbStores, assignments, patKey,
                   recKey, now>>

\* The outcome of clearDatabase: one transaction over patients and recordings
\* with two clear requests (1, 2).  The extended prototype resolves when both
\* succeeded and rejects when one fails.  The primary awaits Promise.all over
\* the two IDBRequest objects, which are not promises: it resolves at once,
\* whatever becomes of the requests.
ClearTx(i, ps, rs, failAt) ==
    [ok |-> IF i = "primary" THEN TRUE ELSE failAt = 0,
     patients |-> IF failAt = 0 THEN {} ELSE ps,
     recordings |-> IF failAt = 0 THEN {} ELSE rs]

\* clearDatabase()
ClearDatabase(failAt) ==
    /\ impl \in Impls
    /\ Settled
    /\ LET canRun == Usable /\ HasStores({PATIENTS_TABLE, RECORDINGS_TABLE})
           tx == IF canRun THEN ClearTx(impl, patients, recordings, failAt)
                 ELSE [ok |-> FALSE, patients |-> patients, recordings |-> recordings]
       IN  /\ failAt # 0 => canRun
           /\ patients' = tx.patients
           /\ recordings' = tx.recordings
           /\ last' = [op |-> "clearDatabase", arg |-> "none", ok |-> tx.ok,
                       failAt |-> failAt]
    /\ UNCHANGED capVars
    /\ UNCHANGED <<impl, ready, dbOpen, idbVersion, idbStores, assignments, patKey,
                   recKey, now>>

\* calculateStorageSize(recordings): total + (recording.fileSize || 0)
CalculateStorageSize(rs) ==
    SumOver(rs, [r \in rs |-> IF r.fileSize = NoNumber THEN 0 ELSE r.fileSize])

\* the object getDatabaseStats resolves with (a field the prototype does not
\* report is NoNumber)
DatabaseStats(i, ps, rs) ==
    [totalPatients |-> Cardinality(ps),
     totalRecordings |-> Cardinality(rs),
     totalStorage |-> IF i = "primary" THEN CalculateStorageSize(rs) ELSE NoNumber,
     totalStorageBytes |-> IF i = "extended" THEN CalculateStorageSize(rs) ELSE NoNumber]

\* getDatabaseStats(): getAllPatients and getAllRecordings, then the totals
GetDatabaseStats(fail) ==
    /\ impl \in Impls
    /\ Settled
    /\ LET canRun == Usable /\ HasStores({PATIENTS_TABLE, RECORDINGS_TABLE})
           ok == canRun /\ ~fail
       IN  /\ fail => canRun
           /\ last' = [op |-> "getDatabaseStats", arg |-> "none", ok |-> ok, fail |-> fail,
                       ret |-> IF ok THEN DatabaseStats(impl, patients, recordings)
                               ELSE DatabaseStats(impl, {}, {})]
    /\ UNCHANGED capVars
    /\ UNCHANGED <<storeVars, now>>

\* addTestAssignment(assignmentData), extended prototype: store.add of a
\* record that carries its own id
AddTestAssignment(a, fail) ==
    /\ impl = "extended"
    /\ Settled
    /\ LET canRun == Usable /\ HasStores({ASSIGNMENTS_TABLE})
           ok == canRun /\ ~fail /\ a.id \notin {x.id : x \in assignments}
       IN  /\ fail => canRun
           /\ assignments' = IF ok THEN assignments \cup {a} ELSE assignments
           /\ last' = [op |-> "addTestAssignment", arg |-> a, ok |-> ok, fail |-> fail]
    /\ UNCHANGED capVars
    /\ UNCHANGED <<impl, ready, dbOpen, idbVersion, idbStores, patients, recordings,
                   patKey, recKey, now>>

\* Max(a, b)
Max(a, b) == IF a > b THEN a ELSE b

\* updatePatient's own check of its argument: typeof id !== 'number'
\* (primary), !patientData?.id (extended)
UpdatePatientThrows(i, u) ==
    IF i = "primary" THEN u.id \in {NoNumber, NotNumeric}
    ELSE u.id \in {NoNumber, 0}

\* store.put(record): the record takes the place of the stored record with
\* its key, or is inserted when the key is free; NaN is no valid key
PutPatient(ps, u, t) ==
    {p \in ps : p.id # u.id} \cup {[u EXCEPT !.updatedAt = t]}

\* updatePatient(patientData)
UpdatePatient(u, fail) ==
    /\ impl \in Impls
    /\ LET invalid == UpdatePatientThrows(impl, u)
           canRun == Usable /\ HasStores({PATIENTS_TABLE}) /\ u.id # NotNumeric
           ok == ~invalid /\ canRun /\ ~fail
       IN  /\ IF impl = "primary" THEN Settled ELSE invalid \/ Settled
           /\ fail => ~invalid /\ canRun
           /\ patients' = IF ok THEN PutPatient(patients, u, now) ELSE patients
           /\ patKey' = IF ok /\ IsAuto(PATIENTS_TABLE) THEN Max(patKey, u.id) ELSE patKey
           /\ last' = [op |-> "updatePatient", arg |-> u, ok |-> ok, fail |-> fail,
                       existed |-> \E p \in patients : p.id = u.id]
    /\ UNCHANGED capVars
    /\ UNCHANGED <<impl, ready, dbOpen, idbVersion, idbStores, recordings, assignments,
                   recKey, now>>

\* a delete that takes the owner's other recordings along
DeleteRecordingAndSiblings(rs, id) ==
    {r \in rs : \A x \in rs : x.id = id => r.patientId # x.patientId}

\* the recordings store after store.delete(Number(recordingId))
DeleteRecordingTx(rs, id) ==
    {r \in rs : r.id # id}

\* deleteRecording(recordingId), extended prototype
DeleteRecording(id, fail) ==
    /\ impl = "extended"
    /\ LET invalid == id = 0
           canRun == Usable /\ HasStores({RECORDINGS_TABLE})
           ok == ~invalid /\ canRun /\ ~fail
       IN  /\ invalid \/ Settled
           /\ fail => ~invalid /\ canRun
           /\ recordings' = IF ok THEN DeleteRecordingTx(recordings, id) ELSE recordings
           /\ last' = [op |-> "deleteRecording", arg |-> id, ok |-> ok, fail |-> fail]
    /\ UNCHANGED capVars
    /\ UNCHANGED <<impl, ready, dbOpen, idbVersion, idbStores, patients, assignments,
                   patKey, recKey, now>>

\* close(), extended prototype: if (this.db) { this.db.close(); this.db = null;
\* this.isReady = false }
Close ==
    /\ impl = "extended"
    /\ dbOpen
    /\ dbOpen' = FALSE
    /\ last' = [op |-> "close", arg |-> "none", ok |-> TRUE]
    /\ UNCHANGED capVars
    /\ UNCHANGED <<impl, ready, idbVersion, idbStores, patients, recordings,
                   assignments, patKey, recKey, now>>

\* ------------------------------------------------------------- input domains
OnePatient ==
    [firstName : {Jo}, lastName : {Lee}, dateOfBirth : {"1970-01-01"}, gender : {"F"}]
Blob3 == [size |-> 3, chunks |-> <<>>]
RecordingInputs ==
    [patientId : 1..MaxPatients, dateTime : {NoTime}, audioBlob : {Blob3},
     duration : {5}, mimeType : {"audio/webm"}, fileSize : {NoNumber}]
SortOrders == {"asc", "desc"}
AssignmentInputs ==
    [id : {"assignment-1"}, patientId : {1}, tests : {<<"voice-recording">>}]

\* ----------------------------------------------- the recording side of the store
NextRec ==
    \/ \E i \in Impls : LoadPage(i)
    \/ OpenDatabase
    \/ Tick
    \/ \E f \in OnePatient : AddPatient(f, FALSE)
    \/ \E rd \in RecordingInputs : AddRecording(rd, FALSE)
    \/ \E id \in PatientIds, o \in SortOrders : GetPatientRecordings(id, o, FALSE)
    \/ \E id \in PatientIds, failAt \in 0..(MaxRecordings + 2) : DeletePatient(id, failAt)
    \/ \E failAt \in 0..2 : ClearDatabase(failAt)
    \/ GetDatabaseStats(FALSE)
    \/ \E a \in AssignmentInputs : AddTestAssignment(a, FALSE)

SpecRec == Init /\ [][NextRec]_vars

\* ------------------------------------------------ deleting a patient's records
NextDel ==
    \/ \E i \in Impls : LoadPage(i)
    \/ OpenDatabase
    \/ \E f \in OnePatient : AddPatient(f, FALSE)
    \/ \E rd \in RecordingInputs : AddRecording(rd, FALSE)
    \/ \E id \in PatientIds, failAt \in 0..(MaxRecordings + 2) : DeletePatient(id, failAt)

SpecDel == Init /\ [][NextDel]_vars

\* ------------------------------------------- the life of the stored records
EditedPatient ==
    [firstName : {Al}, lastName : {Lee}, dateOfBirth : {"1970-01-01"}, gender : {"F"}]
UpdateIds == {NoNumber, NotNumeric} \cup (1..MaxPatients)
UpdateInputs == {PatientRecord("primary", f, id, 0) : f \in EditedPatient, id \in UpdateIds}
RecordingIds == 0..MaxRecordings
LifeRecordings == {rd \in RecordingInputs : rd.patientId \in {1, MaxPatients}}

\* The store just opened by either prototype, over a database that the
\* primary prototype created and that is still empty.
InitStore ==
    /\ impl \in Impls
    /\ ready = "fulfilled"
    /\ dbOpen = TRUE
    /\ idbVersion = DB_VERSION
    /\ idbStores = CreateTables("primary", {}).stores
    /\ patients = {}
    /\ recordings = {}
    /\ assignments = {}
    /\ patKey = 0
    /\ recKey = 0
    /\ now = 0
    /\ last = [op |-> "open", arg |-> impl, ok |-> TRUE]
    /\ vr = "none"
    /\ currentPatient = CapFresh.currentPatient
    /\ isEditing = FALSE
    /\ isRecording = CapFresh.isRecording
    /\ isPaused = CapFresh.isPaused
    /\ hasRecording = CapFresh.hasRecording
    /\ mediaRecorder = CapFresh.mediaRecorder
    /\ startTime = CapFresh.startTime
    /\ pausedDuration = CapFresh.pausedDuration
    /\ recordingDuration = CapFresh.recordingDuration
    /\ audioChunks = CapFresh.audioChunks
    /\ recordingBlob = CapFresh.recordingBlob
    /\ micPending = 0
    /\ stopPending = FALSE
    /\ pending = <<>>
    /\ orphaned = FALSE
    /\ startedFor = 0
    /\ carried = 0
    /\ recorded = 0
    /\ path = "idle"

\* every operation that writes to the store
NextLife ==
    \/ Close
    \/ \E f \in OnePatient : AddPatient(f, FALSE)
    \/ \E u \in UpdateInputs : UpdatePatient(u, FALSE)
    \/ \E rd \in LifeRecordings : AddRecording(rd, FALSE)
    \/ \E id \in RecordingIds, fail \in BOOLEAN : DeleteRecording(id, fail)
    \/ \E id \in PatientIds : DeletePatient(id, 0)
    \/ \E failAt \in 0..1 : ClearDatabase(failAt)

SpecLife == InitStore /\ [][NextLife]_vars

\* --------------------------------------- the operations and their arguments
NameInputs ==
    [firstName : {Jo, <<>>}, lastName : {Lee, <<>>}, dateOfBirth : {"1970-01-01"},
     gender : {"F"}]
ArgRecordings ==
    [patientId : {0, 1}, dateTime : {NoTime, 0}, audioBlob : {Blob3, NoBlob},
     duration : {5}, mimeType : {"audio/webm"}, fileSize : {NoNumber}]

\* every operation of the store, with arguments that lack a part and with
\* requests that the storage engine fails
NextOps ==
    \/ Tick
    \/ \E f \in NameInputs, fail \in BOOLEAN : AddPatient(f, fail)
    \/ \E id \in LookupIds, fail \in BOOLEAN : GetPatient(id, fail)
    \/ \E u \in UpdateInputs, fail \in BOOLEAN : UpdatePatient(u, fail)
    \/ \E c \in SearchInputs, fail \in BOOLEAN :
            c.firstName = <<>> /\ c.limit = NoNumber /\ SearchPatients(c, fail)
    \/ \E rd \in ArgRecordings, fail \in BOOLEAN : AddRecording(rd, fail)
    \/ \E id \in PatientIds, fail \in BOOLEAN : GetPatientRecordings(id, "desc", fail)
    \/ \E id \in RecordingIds, fail \in BOOLEAN : DeleteRecording(id, fail)
    \/ \E id \in PatientIds, failAt \in 0..1 : DeletePatient(id, failAt)
    \/ \E failAt \in 0..1 : ClearDatabase(failAt)
    \/ \E fail \in BOOLEAN : GetDatabaseStats(fail)

SpecOps == InitStore /\ [][NextOps]_vars

\* -------------------------------------------------------- the test manager
\* generateUniqueId: 'assignment-' + Date.now() + '-' + a random text
GenerateUniqueId(t, rnd) == <<"assignment", t, rnd>>

\* TestManager.saveTestAssignment(patientId, selectedTests): the assignment
\* is handed to db.addTestAssignment, which the primary DatabaseManager does
\* not have (TypeError); the identifier is returned unless the call threw
SaveTestAssignment(pid, tests, rnd, fail) ==
    /\ impl \in Impls
    /\ impl = "extended" => Settled
    /\ LET id == GenerateUniqueId(now, rnd)
           a == [id |-> id, patientId |-> pid, tests |-> tests, createdAt |-> now]
           canRun == impl = "extended" /\ Usable /\ HasStores({ASSIGNMENTS_TABLE})
           ok == canRun /\ ~fail /\ id \notin {x.id : x \in assignments}
       IN  /\ fail => canRun
           /\ assignments' = IF ok THEN assignments \cup {a} ELSE assignments
           /\ last' = [op |-> "saveTestAssignment", arg |-> [patientId |-> pid, tests |-> tests],
                       ok |-> ok, fail |-> fail, ret |-> IF ok THEN id ELSE <<>>]
    /\ UNCHANGED capVars
    /\ UNCHANGED <<impl, ready, dbOpen, idbVersion, idbStores, patients, recordings,
                   patKey, recKey, now>>

\* what getTestAssignment returns: it calls this.db.get('test-assignments',
\* id), a method no DatabaseManager has; the TypeError is caught and null
\* is returned
GetTestAssignmentRet(as, id) == NULL

\* TestManager.getTestAssignment(assignmentId)
GetTestAssignment(id) ==
    /\ impl \in Impls
    /\ last' = [op |-> "getTestAssignment", arg |-> id, ok |-> TRUE,
                ret |-> GetTestAssignmentRet(assignments, id)]
    /\ UNCHANGED capVars
    /\ UNCHANGED <<storeVars, now>>

TestLists == {<<"voice-recording">>, <<"voice-recording", "cognitive-test">>}
Randoms == {"k3x", "q9z"}
AssignmentIds == {GenerateUniqueId(t, rnd) : t \in 0..MaxTime, rnd \in Randoms}

\* the clinician's side: patients are created, tests are assigned to them,
\* assignments are looked up by the identifier of a link
NextAssign ==
    \/ \E i \in Impls : LoadPage(i)
    \/ OpenDatabase
    \/ Tick
    \/ \E f \in OnePatient : AddPatient(f, FALSE)
    \/ \E pid \in 1..MaxPatients, tests \in TestLists, rnd \in Randoms, fail \in BOOLEAN :
           SaveTestAssignment(pid, tests, rnd, fail)
    \/ \E id \in AssignmentIds : GetTestAssignment(id)

SpecAssign == Init /\ [][NextAssign]_vars

\* --------------------------------- operations around opening and closing
OpenRecordings == {rd \in RecordingInputs : rd.patientId = 1}
OpenUpdates == {u \in UpdateInputs : u.id = 1}

\* the operations of the store called at any time: before the page has a
\* DatabaseManager settled, after the open failed, after close()
NextOpen ==
    \/ \E i \in Impls : LoadPage(i)
    \/ OpenDatabase
    \/ Close
    \/ \E f \in OnePatient : AddPatient(f, FALSE)
    \/ GetPatient(1, FALSE)
    \/ \E u \in OpenUpdates : UpdatePatient(u, FALSE)
    \/ \E rd \in OpenRecordings : AddRecording(rd, FALSE)
    \/ DeleteRecording(1, FALSE)
    \/ DeletePatient(1, 0)
    \/ ClearDatabase(0)
    \/ GetDatabaseStats(FALSE)

SpecOpen == Init /\ [][NextOpen]_vars

\* ------------------------------------------------------------ the application
VoiceRecorders == {"primary", "readme"}

\* ParkinsonWebTestApp.init: once the database is initialised, the
\* PatientManager and the VoiceRecorder are constructed
InitApp(v) ==
    /\ vr = "none"
    /\ Usable
    /\ vr' = v
    /\ last' = [op |-> "initApp", arg |-> v, ok |-> TRUE]
    /\ UNCHANGED <<storeVars, now, currentPatient, isEditing, isRecording, isPaused,
                   hasRecording,
                   mediaRecorder, startTime, pausedDuration, recordingDuration,
                   audioChunks, recordingBlob, micPending, stopPending, pending, orphaned, startedFor, carried, recorded, path>>

\* PatientManager.onSearchClicked with id in the Patient ID field (0: empty)
OnSearchClicked(id) ==
    /\ vr # "none"
    /\ LET r == GetPatientRet(impl, patients, id)
           found == id # 0 /\ Usable /\ HasStores({PATIENTS_TABLE}) /\ r.recs # {}
       IN  /\ currentPatient' = IF found THEN CHOOSE p \in r.recs : TRUE
                                ELSE currentPatient
           /\ last' = [op |-> "onSearchClicked", arg |-> id, ok |-> found]
    /\ UNCHANGED <<storeVars, now, vr, isEditing, isRecording, isPaused, hasRecording,
                   mediaRecorder, startTime, pausedDuration, recordingDuration,
                   audioChunks, recordingBlob, micPending, stopPending, pending, orphaned, startedFor, carried, recorded, path>>

\* PatientManager.onNewPatientClicked
OnNewPatientClicked ==
    /\ vr # "none"
    /\ currentPatient' = NoPatient
    /\ isEditing' = FALSE
    /\ last' = [op |-> "onNewPatientClicked", arg |-> "none", ok |-> TRUE]
    /\ UNCHANGED <<storeVars, now, vr, isRecording, isPaused, hasRecording,
                   mediaRecorder, startTime, pausedDuration, recordingDuration,
                   audioChunks, recordingBlob, micPending, stopPending, pending, orphaned, startedFor, carried, recorded, path>>

\* PatientManager.onUpdateClicked
OnUpdateClicked ==
    /\ vr # "none"
    /\ isEditing' = (IF currentPatient = NoPatient THEN isEditing ELSE TRUE)
    /\ last' = [op |-> "onUpdateClicked", arg |-> "none", ok |-> currentPatient # NoPatient]
    /\ UNCHANGED <<storeVars, now, vr, currentPatient, isRecording, isPaused, hasRecording,
                   mediaRecorder, startTime, pausedDuration, recordingDuration,
                   audioChunks, recordingBlob, micPending, stopPending, pending, orphaned, startedFor, carried, recorded, path>>

\* ------------------------------------------------------------ the patient form
\* A date is the value of the date field, "YYYY-MM-DD" ("" when empty); its
\* calendar parts are read off the text.
DateParts(s) ==
    CASE s = "1905-11-05" -> [y |-> 1905, m |-> 11, d |-> 5]
      [] s = "1905-11-06" -> [y |-> 1905, m |-> 11, d |-> 6]
      [] s = "1970-01-01" -> [y |-> 1970, m |-> 1, d |-> 1]
      [] s = "2008-11-05" -> [y |-> 2008, m |-> 11, d |-> 5]
      [] s = "2008-11-06" -> [y |-> 2008, m |-> 11, d |-> 6]

\* `new Date()` read with getFullYear / getMonth / getDate: the local date
\* of the click
Today == [y |-> 2026, m |-> 11, d |-> 5]

IsLeap(y) == y % 4 = 0 /\ (y % 100 # 0 \/ y % 400 = 0)

DaysInMonth(y, m) ==
    IF m = 2 THEN (IF IsLeap(y) THEN 29 ELSE 28)
    ELSE IF m \in {4, 6, 9, 11} THEN 30 ELSE 31

PrevDay(t) ==
    IF t.d > 1 THEN [t EXCEPT !.d = t.d - 1]
    ELSE IF t.m > 1 THEN [t EXCEPT !.m = t.m - 1, !.d = DaysInMonth(t.y, t.m - 1)]
    ELSE [y |-> t.y - 1, m |-> 12, d |-> 31]

\* the browser's time zone, as far as a date is concerned: behind UTC or not
Zones == {"behindUTC", "UTCorAhead"}

\* `new Date(dateOfBirth)` read with getFullYear / getMonth / getDate: a
\* date-only text is parsed as midnight UTC, the getters read it in local
\* time, which is still the day before where the zone is behind UTC
BirthDate(s, zone) ==
    IF zone = "behindUTC" THEN PrevDay(DateParts(s)) ELSE DateParts(s)

\* age = today.getFullYear() - birthDate.getFullYear(), one less when the
\* birthday of this year is still to come
Age(b, t) ==
    LET m == t.m - b.m
    IN  IF m < 0 \/ (m = 0 /\ t.d < b.d) THEN t.y - b.y - 1 ELSE t.y - b.y

\* collectFormData
CollectFormData(form) ==
    [firstName |-> Trim(form.firstName), lastName |-> Trim(form.lastName),
     dateOfBirth |-> form.dateOfBirth, gender |-> form.gender]

\* validatePatientForm
ValidatePatientForm(form, zone) ==
    LET f == CollectFormData(form)
    IN  /\ ~(Len(f.firstName) < MIN_NAME_LENGTH) /\ ~(Len(f.firstName) > MAX_NAME_LENGTH)
        /\ ~(Len(f.lastName) < MIN_NAME_LENGTH) /\ ~(Len(f.lastName) > MAX_NAME_LENGTH)
        /\ f.dateOfBirth # ""
        /\ LET age == Age(BirthDate(f.dateOfBirth, zone), Today)
           IN  ~(age < MIN_AGE) /\ ~(age > MAX_AGE)
        /\ f.gender # ""

\* { ...this.currentPatient, ...formData }
MergePatient(cur, f) ==
    [cur EXCEPT !.firstName = f.firstName, !.lastName = f.lastName,
                !.dateOfBirth = f.dateOfBirth, !.gender = f.gender]

\* PatientManager.onSaveClicked with the form as filled in: validation, then
\* updatePatient (editing a current patient) or addPatient, then getPatient
\* and handlePatientFound; a rejection of the store ends in the error banner
OnSaveClicked(form, zone, fail) ==
    /\ vr # "none"
    /\ LET valid == ValidatePatientForm(form, zone)
           f == CollectFormData(form)
           editing == isEditing /\ currentPatient # NoPatient
           updated == MergePatient(currentPatient, f)
           id == IF editing THEN currentPatient.id ELSE patKey + 1
           canRun == /\ Usable /\ HasStores({PATIENTS_TABLE})
                     /\ IF editing THEN ~UpdatePatientThrows(impl, updated)
                        ELSE IsAuto(PATIENTS_TABLE) /\ ~AddPatientThrows(impl, f)
           ok == valid /\ canRun /\ ~fail
           written == IF editing THEN PutPatient(patients, updated, now)
                      ELSE patients \cup {PatientRecord(impl, f, id, now)}
       IN  /\ fail => valid /\ canRun
           /\ valid /\ canRun /\ ~editing => patKey < MaxPatients
           /\ patients' = IF ok THEN written ELSE patients
           /\ patKey' = IF ok /\ IsAuto(PATIENTS_TABLE) THEN Max(patKey, id) ELSE patKey
           /\ currentPatient' = IF ok THEN CHOOSE p \in written : p.id = id
                                ELSE currentPatient
           /\ isEditing' = IF ok THEN FALSE ELSE isEditing
           /\ last' = [op |-> "onSaveClicked", arg |-> form, zone |-> zone,
                       valid |-> valid, ok |-> ok, fail |-> fail,
                       edited |-> editing, ret |-> IF ok THEN id ELSE 0]
    /\ UNCHANGED <<impl, ready, dbOpen, idbVersion, idbStores, recordings, assignments,
                   recKey, now, vr, isRecording, isPaused, hasRecording,
                   mediaRecorder, startTime, pausedDuration, recordingDuration,
                   audioChunks, recordingBlob, micPending, stopPending, pending, orphaned, startedFor, carried, recorded, path>>

\* ------------------------------------------- the handlers, request by request
\* A store request of the Patient Workflow that is not yet answered, with
\* what the handler awaiting it holds: the id asked for, the data to write,
\* the branch of onSaveClicked it is in, and (history) the id its save wrote.
Request(kind, id, rec, edited, wrote) ==
    [kind |-> kind, id |-> id, rec |-> rec, edited |-> edited, wrote |-> wrote]

\* transaction(..., 'readonly') of getPatient; addPatient and updatePatient
\* open theirs 'readwrite'
ReadOnly(r) == r.kind \in {"search", "reload"}

\* IndexedDB starts the transactions over one store in the order they were
\* created, readonly ones side by side: the oldest request can be answered,
\* and a readonly one with nothing but readonly ones ahead of it
CanAnswer(q, i) == i = 1 \/ \A j \in 1..i : ReadOnly(q[j])

\* the requests left when the i-th is answered
Remove(q, i) == SubSeq(q, 1, i - 1) \o SubSeq(q, i + 1, Len(q))

\* a click on Save is being handled
SaveInFlight == \E i \in 1..Len(pending) : pending[i].kind \in {"update", "add", "reload"}

\* what the handlers of the Patient Workflow leave alone
WorkflowFrame ==
    UNCHANGED <<impl, ready, dbOpen, idbVersion, idbStores, recordings, assignments,
                recKey, now, vr, isRecording, isPaused, hasRecording,
                mediaRecorder, startTime, pausedDuration, recordingDuration,
                audioChunks, recordingBlob, micPending, stopPending, orphaned,
                startedFor, carried, recorded, path>>

\* onSearchClicked up to `await this.db.getPatient(patientId)`: an empty
\* field, or a store that cannot be asked, ends in the error banner at once
SearchRequested(id) ==
    /\ vr # "none"
    /\ Len(pending) < MaxInFlight
    /\ LET asked == id # 0 /\ Usable /\ HasStores({PATIENTS_TABLE})
       IN  /\ pending' = IF asked
                         THEN Append(pending, Request("search", id, NoPatient, FALSE, 0))
                         ELSE pending
           /\ last' = [op |-> "searchRequested", arg |-> id, ok |-> asked,
                       banner |-> IF asked THEN "none" ELSE "error"]
    /\ UNCHANGED <<patients, patKey, currentPatient, isEditing>>
    /\ WorkflowFrame

\* onSearchClicked from the answer of getPatient on: handlePatientFound, or
\* the banner 'No patient found'
SearchAnswered(i) ==
    /\ i \in 1..Len(pending)
    /\ pending[i].kind = "search"
    /\ CanAnswer(pending, i)
    /\ LET r == GetPatientRet(impl, patients, pending[i].id)
           found == r.recs # {}
       IN  /\ currentPatient' = IF found THEN CHOOSE p \in r.recs : TRUE
                                ELSE currentPatient
           /\ last' = [op |-> "searchDone", arg |-> pending[i].id, ok |-> found,
                       banner |-> IF found THEN "success" ELSE "error"]
    /\ pending' = Remove(pending, i)
    /\ UNCHANGED <<patients, patKey, isEditing>>
    /\ WorkflowFrame

\* onSaveClicked up to `await this.db.updatePatient(updated)` or
\* `await this.db.addPatient(formData)`: validation, the form's data, the
\* choice of the branch, and the record handed to the store
SaveRequested(form, zone) ==
    /\ vr # "none"
    /\ Len(pending) < MaxInFlight
    /\ ~SaveInFlight
    /\ LET valid == ValidatePatientForm(form, zone)
           f == CollectFormData(form)
           editing == isEditing /\ currentPatient # NoPatient
           updated == MergePatient(currentPatient, f)
           canRun == /\ Usable /\ HasStores({PATIENTS_TABLE})
                     /\ IF editing THEN ~UpdatePatientThrows(impl, updated)
                        ELSE IsAuto(PATIENTS_TABLE) /\ ~AddPatientThrows(impl, f)
           asked == valid /\ canRun
       IN  /\ asked /\ ~editing => patKey < MaxPatients
           /\ pending' = IF ~asked THEN pending
                         ELSE IF editing
                         THEN Append(pending, Request("update", updated.id, updated, TRUE, 0))
                         ELSE Append(pending, Request("add", 0, f, FALSE, 0))
           /\ last' = [op |-> "saveRequested", arg |-> form, valid |-> valid, ok |-> asked,
                       banner |-> IF valid /\ ~canRun THEN "error" ELSE "none"]
    /\ UNCHANGED <<patients, patKey, currentPatient, isEditing>>
    /\ WorkflowFrame

\* onSaveClicked from the answer of updatePatient / addPatient up to
\* `await this.db.getPatient(...)`: the store has written (or rejected, and
\* the catch block shows the error banner); the edit branch then reads
\* this.currentPatient.id, which throws when there is no current patient
SaveWritten(i, fail) ==
    /\ i \in 1..Len(pending)
    /\ pending[i].kind \in {"update", "add"}
    /\ CanAnswer(pending, i)
    /\ LET rq == pending[i]
           id == IF rq.edited THEN rq.id ELSE patKey + 1
           written == IF rq.edited THEN PutPatient(patients, rq.rec, now)
                      ELSE patients \cup {PatientRecord(impl, rq.rec, id, now)}
           thrown == rq.edited /\ currentPatient = NoPatient
           next == IF rq.edited THEN currentPatient.id ELSE id
       IN  /\ patients' = IF fail THEN patients ELSE written
           /\ patKey' = IF fail THEN patKey ELSE Max(patKey, id)
           /\ pending' = IF fail \/ thrown THEN Remove(pending, i)
                         ELSE Append(Remove(pending, i),
                                     Request("reload", next, NoPatient, rq.edited, id))
           /\ last' = IF fail \/ thrown
                      THEN [op |-> "saveDone", stored |-> ~fail, banner |-> "error",
                            edited |-> rq.edited, wrote |-> IF fail THEN 0 ELSE id]
                      ELSE [op |-> "saveWritten", stored |-> TRUE, banner |-> "none",
                            edited |-> rq.edited, wrote |-> id]
    /\ UNCHANGED <<currentPatient, isEditing>>
    /\ WorkflowFrame

\* onSaveClicked from the answer of getPatient to its end: handlePatientFound
\* with what was reloaded, isEditing = false in the edit branch, clearForm;
\* a rejection, or a reload that found nothing, ends in the catch block
SaveReloaded(i, fail) ==
    /\ i \in 1..Len(pending)
    /\ pending[i].kind = "reload"
    /\ CanAnswer(pending, i)
    /\ LET rq == pending[i]
           r == GetPatientRet(impl, patients, rq.id)
           found == ~fail /\ r.recs # {}
       IN  /\ currentPatient' = IF fail THEN currentPatient
                                ELSE IF found THEN CHOOSE p \in r.recs : TRUE
                                ELSE NoPatient
           /\ isEditing' = IF found /\ rq.edited THEN FALSE ELSE isEditing
           /\ last' = [op |-> "saveDone", stored |-> ~fail,
                       banner |-> IF found THEN "success" ELSE "error",
                       edited |-> rq.edited, wrote |-> rq.wrote]
    /\ pending' = Remove(pending, i)
    /\ UNCHANGED <<patients, patKey>>
    /\ WorkflowFrame

\* ------------------------------------------------------------ the voice recorder
\* the recorder's own state, as a caller of its controls can observe it
RecorderState ==
    [isRecording |-> isRecording, isPaused |-> isPaused, hasRecording |-> hasRecording,
     mediaRecorder |-> mediaRecorder, startTime |-> startTime,
     pausedDuration |-> pausedDuration, recordingDuration |-> recordingDuration,
     audioChunks |-> audioChunks, recordingBlob |-> recordingBlob]

RECURSIVE SumSizes(_)
SumSizes(chunks) ==
    IF chunks = <<>> THEN 0 ELSE Head(chunks).size + SumSizes(Tail(chunks))

\* new Blob(audioChunks, { type })
MakeBlob(chunks) == [size |-> SumSizes(chunks), chunks |-> chunks]

\* ondataavailable: if (event.data.size > 0) audioChunks.push(event.data)
PushChunk(chunks, size) ==
    IF size > 0 THEN Append(chunks, [size |-> size]) ELSE chunks

\* processRecording: the blob and the hasRecording flag after it
ProcessRecording(v, chunks, blob, has) ==
    IF Len(chunks) > 0
    THEN [recordingBlob |-> MakeBlob(chunks), hasRecording |-> IF v = "readme" THEN TRUE ELSE has]
    ELSE [recordingBlob |-> blob, hasRecording |-> has]

\* README getCurrentElapsedTime()
GetCurrentElapsedTime(rec, paused, total, pausedDur, start, t) ==
    IF ~rec THEN total
    ELSE IF paused THEN pausedDur
    ELSE t - start + pausedDur

\* a pause guard that forgets to look at isPaused
CanPauseWhilePaused(v) ==
    IF v = "primary" THEN mediaRecorder # NULL /\ isRecording
    ELSE isRecording

\* the guards of the controls (README: canPause / canResume / canStop)
CanPause(v) ==
    IF v = "primary" THEN mediaRecorder # NULL /\ isRecording /\ ~isPaused
    ELSE isRecording /\ ~isPaused

CanResume(v) ==
    IF v = "primary" THEN mediaRecorder # NULL /\ isRecording /\ isPaused
    ELSE isRecording /\ isPaused

CanStop(v) ==
    IF v = "primary" THEN mediaRecorder # NULL /\ isRecording
    ELSE isRecording

\* click on Start (the button is disabled while isRecording): without a
\* current patient an error is shown, else getUserMedia is called
StartClicked(max) ==
    /\ vr # "none"
    /\ ~isRecording
    /\ currentPatient # NoPatient => micPending < max
    /\ micPending' = IF currentPatient # NoPatient THEN micPending + 1 ELSE micPending
    /\ last' = [op |-> "startRecording", arg |-> "none", ok |-> currentPatient # NoPatient]
    /\ UNCHANGED <<storeVars, now, vr, currentPatient, isEditing, isRecording, isPaused,
                   hasRecording, mediaRecorder, startTime, pausedDuration,
                   recordingDuration, audioChunks, recordingBlob, stopPending, pending, orphaned, startedFor, carried,
                   recorded, path>>

StartRecording == StartClicked(MaxPending)

\* getUserMedia resolves: the rest of startRecording.  The task of an earlier
\* MediaRecorder.stop() was queued before the click that asked for the
\* microphone, and runs before this.
MicGranted ==
    /\ micPending > 0
    /\ ~stopPending
    /\ micPending' = micPending - 1
    /\ audioChunks' = IF vr = "primary" THEN <<>> ELSE audioChunks
    /\ mediaRecorder' = "recording"
    /\ isRecording' = TRUE
    /\ isPaused' = FALSE
    /\ startTime' = now
    /\ pausedDuration' = 0
    /\ UNCHANGED last
    /\ UNCHANGED <<storeVars, now, vr, currentPatient, isEditing, hasRecording, recordingDuration,
                   recordingBlob, stopPending, pending>>

\* the same, with the browser's objects followed: the stream and the
\* MediaRecorder of an earlier grant are not stopped when this.audioStream and
\* this.mediaRecorder are overwritten, they stay live
MicGrantedLive ==
    /\ MicGranted
    /\ orphaned' = (orphaned \/ mediaRecorder \in {"recording", "paused"})
    /\ UNCHANGED <<recorded, path, startedFor, carried>>

\* the same, with the patient followed who is current as the capture starts
MicGrantedFor ==
    /\ MicGranted
    /\ startedFor' = currentPatient.id
    /\ UNCHANGED <<recorded, path, orphaned, carried>>

\* the same, with the buffer followed: what it holds as the capture starts
\* was delivered before this capture
MicGrantedOver ==
    /\ MicGranted
    /\ carried' = Len(audioChunks')
    /\ UNCHANGED <<recorded, path, orphaned, startedFor>>

\* getUserMedia rejects: the catch block leaves the recorder as it is
MicFails ==
    /\ micPending > 0
    /\ micPending' = micPending - 1
    /\ UNCHANGED <<storeVars, now, vr, currentPatient, isEditing, isRecording, isPaused,
                   hasRecording, mediaRecorder, startTime, pausedDuration,
                   recordingDuration, audioChunks, recordingBlob, stopPending, pending, orphaned, startedFor, carried,
                   recorded, path>>

\* getUserMedia rejects: an error is shown
MicDenied ==
    /\ MicFails
    /\ UNCHANGED last

\* a catch block with one message for every error
MicErrorMessageGeneric(name) == "generic"

\* the message the catch block (README: handleRecordingError) picks by error.name
MicErrorMessage(name) ==
    IF name \in {"NotAllowedError", "SecurityError"} THEN "blocked"
    ELSE IF name = "NotFoundError" THEN "notFound"
    ELSE "generic"

\* getUserMedia rejects with an error of that name: the message is shown
MicRejected(name) ==
    /\ MicFails
    /\ last' = [op |-> "micRejected", arg |-> name, ok |-> FALSE,
                message |-> MicErrorMessage(name)]

\* a timeslice of the running MediaRecorder ends: ondataavailable
DataAvailable(size) ==
    /\ mediaRecorder = "recording"
    /\ size > 0 => Len(audioChunks) < MaxChunks
    /\ audioChunks' = PushChunk(audioChunks, size)
    /\ UNCHANGED last
    /\ UNCHANGED <<storeVars, now, vr, currentPatient, isEditing, isRecording, isPaused,
                   hasRecording, mediaRecorder, startTime, pausedDuration,
                   recordingDuration, recordingBlob, micPending, stopPending, pending, orphaned, startedFor, carried,
                   recorded, path>>

\* a timeslice of a MediaRecorder that is no longer referenced ends: its
\* ondataavailable pushes to the same this.audioChunks
OrphanDataAvailable(size) ==
    /\ orphaned
    /\ size > 0 => Len(audioChunks) < MaxChunks
    /\ audioChunks' = PushChunk(audioChunks, size)
    /\ UNCHANGED last
    /\ UNCHANGED <<storeVars, now, vr, currentPatient, isEditing, isRecording, isPaused,
                   hasRecording, mediaRecorder, startTime, pausedDuration,
                   recordingDuration, recordingBlob, micPending, stopPending, pending, orphaned, startedFor, carried,
                   recorded, path>>

\* pauseRecording() (README: handlePause)
PauseRecording ==
    /\ vr # "none"
    /\ LET can == CanPause(vr)
       IN  /\ mediaRecorder' = IF can THEN "paused" ELSE mediaRecorder
           /\ isPaused' = IF can THEN TRUE ELSE isPaused
           /\ pausedDuration' = IF can THEN pausedDuration + (now - startTime)
                                ELSE pausedDuration
           /\ last' = [op |-> "pauseRecording", arg |-> "none", ok |-> can]
    /\ UNCHANGED <<storeVars, now, vr, currentPatient, isEditing, isRecording, hasRecording,
                   startTime, recordingDuration, audioChunks, recordingBlob,
                   micPending, stopPending, pending, orphaned, startedFor, carried>>

\* resumeRecording() (README: handleResume)
ResumeRecording ==
    /\ vr # "none"
    /\ LET can == CanResume(vr)
       IN  /\ mediaRecorder' = IF can THEN "recording" ELSE mediaRecorder
           /\ isPaused' = IF can THEN FALSE ELSE isPaused
           /\ startTime' = IF can THEN now ELSE startTime
           /\ last' = [op |-> "resumeRecording", arg |-> "none", ok |-> can]
    /\ UNCHANGED <<storeVars, now, vr, currentPatient, isEditing, isRecording, hasRecording,
                   pausedDuration, recordingDuration, audioChunks, recordingBlob,
                   micPending, stopPending, pending, orphaned, startedFor, carried>>

\* the duration stopRecording computes.  The README recorder has cleared
\* state.isRecording before it asks getCurrentElapsedTime().
StopDuration(v, t) ==
    IF v = "primary" THEN t - startTime + pausedDuration
    ELSE GetCurrentElapsedTime(FALSE, FALSE, recordingDuration, pausedDuration,
                               startTime, t)

\* stopRecording() (README: handleStop); the README recorder also calls
\* processRecording() itself, before the MediaRecorder has delivered its last data
StopRecording ==
    /\ vr # "none"
    /\ LET can == CanStop(vr)
           pr == IF can /\ vr = "readme"
                 THEN ProcessRecording(vr, audioChunks, recordingBlob, hasRecording)
                 ELSE [recordingBlob |-> recordingBlob, hasRecording |-> hasRecording]
       IN  /\ mediaRecorder' = IF can THEN "inactive" ELSE mediaRecorder
           /\ stopPending' = IF can THEN TRUE ELSE stopPending
           /\ isRecording' = IF can THEN FALSE ELSE isRecording
           /\ isPaused' = IF can THEN FALSE ELSE isPaused
           /\ recordingDuration' = IF can THEN StopDuration(vr, now) ELSE recordingDuration
           /\ recordingBlob' = pr.recordingBlob
           /\ hasRecording' = pr.hasRecording
           /\ last' = [op |-> "stopRecording", arg |-> "none", ok |-> can]
    /\ UNCHANGED <<storeVars, now, vr, currentPatient, isEditing, startTime, pausedDuration,
                   audioChunks, micPending, pending, orphaned, startedFor, carried>>

\* the task MediaRecorder.stop() queued: a last dataavailable with the data
\* gathered since the previous one, then onstop, which runs processRecording
OnStop(size) ==
    /\ stopPending
    /\ size > 0 => Len(audioChunks) < MaxChunks
    /\ LET chunks == PushChunk(audioChunks, size)
           pr == ProcessRecording(vr, chunks, recordingBlob, hasRecording)
       IN  /\ audioChunks' = chunks
           /\ recordingBlob' = pr.recordingBlob
           /\ hasRecording' = pr.hasRecording
    /\ stopPending' = FALSE
    /\ UNCHANGED last
    /\ UNCHANGED <<storeVars, now, vr, currentPatient, isEditing, isRecording, isPaused,
                   mediaRecorder, startTime, pausedDuration, recordingDuration,
                   micPending, pending, orphaned, startedFor, carried, recorded, path>>

\* a recordingData that lacks the last buffered chunk
RecordingDataTruncated(pid, blob, dur) ==
    LET chunks == SubSeq(blob.chunks, 1, Len(blob.chunks) - 1)
    IN  [patientId |-> pid, dateTime |-> NoTime, audioBlob |-> MakeBlob(chunks),
         duration |-> dur, mimeType |-> "audio/webm", fileSize |-> SumSizes(chunks)]

\* the recordingData the save action hands to addRecording
RecordingData(pid, blob, dur) ==
    [patientId |-> pid, dateTime |-> NoTime, audioBlob |-> blob, duration |-> dur,
     mimeType |-> "audio/webm", fileSize |-> blob.size]

\* saveRecordingToDatabase() (README: handleSave / saveToDatabase): without a
\* recording or a current patient an error is shown, else addRecording
SaveRecordingToDatabase(fail) ==
    /\ vr # "none"
    /\ LET has == IF vr = "primary" THEN recordingBlob # NoBlob ELSE hasRecording
           attempt == has /\ currentPatient # NoPatient
           out == AddRecordingOutcome(
                      RecordingData(currentPatient.id, recordingBlob, recordingDuration),
                      fail)
       IN  /\ fail => attempt /\ out.mayFail
           /\ attempt => out.runs
           /\ attempt /\ out.mayFail => recKey < MaxRecordings
           /\ recordings' = IF attempt THEN out.recordings ELSE recordings
           /\ recKey' = IF attempt THEN out.recKey ELSE recKey
           /\ last' = [op |-> "saveRecording", arg |-> "none", ok |-> attempt /\ out.ok]
    /\ UNCHANGED capVars
    /\ UNCHANGED <<impl, ready, dbOpen, idbVersion, idbStores, patients, assignments,
                   patKey, now>>

\* ------------------------------------------------------- events of the page
\* what app.js reads as voiceRecorder.isRecording / voiceRecorder.isPaused:
\* fields of the primary recorder; the README recorder keeps them in
\* this.state, so the properties are undefined
SeenRecording(v) == IF v = "primary" THEN isRecording ELSE FALSE

SeenPaused(v) == IF v = "primary" THEN isPaused ELSE FALSE

\* visibilitychange: if (document.hidden && voiceRecorder &&
\* voiceRecorder.isRecording && !voiceRecorder.isPaused) pauseRecording()
\* (pauseRecording of the primary recorder has its guard; the README one has none)
OnVisibilityChange(hidden) ==
    /\ vr # "none"
    /\ LET called == hidden /\ SeenRecording(vr) /\ ~SeenPaused(vr)
           can == called /\ (vr = "primary" => CanPause(vr))
       IN  /\ mediaRecorder' = IF can THEN "paused" ELSE mediaRecorder
           /\ isPaused' = IF can THEN TRUE ELSE isPaused
           /\ pausedDuration' = IF can THEN pausedDuration + (now - startTime)
                                ELSE pausedDuration
           /\ last' = [op |-> "visibilitychange", arg |-> hidden, ok |-> called]
    /\ UNCHANGED <<storeVars, now, vr, currentPatient, isEditing, isRecording, hasRecording,
                   startTime, recordingDuration, audioChunks, recordingBlob,
                   micPending, stopPending, pending, orphaned, startedFor, carried, recorded, path>>

\* VoiceRecorder.hasRecording()
HasRecording(v) ==
    IF v = "primary" THEN recordingBlob # NoBlob
    ELSE hasRecording /\ recordingBlob # NoBlob

\* beforeunload: the page asks for the leave warning if
\* voiceRecorder.hasRecording()
OnBeforeUnload ==
    /\ vr # "none"
    /\ last' = [op |-> "beforeunload", arg |-> "none", ok |-> TRUE,
                warned |-> HasRecording(vr)]
    /\ UNCHANGED <<storeVars, now, capVars>>

\* the size of the data a dataavailable event carries: of a timeslice, and of
\* what MediaRecorder.stop() flushes (nothing, if stopped right after a timeslice)
TimesliceSizes == {1}
ChunkSizes == {0, 1}

\* The application just initialised, at time 0, over a database that the
\* primary prototype created and that holds MaxPatients - 1 patients and
\* MaxRecordings - 1 recordings of the first of them.
InitCap ==
    /\ impl \in Impls
    /\ ready = "fulfilled"
    /\ dbOpen = TRUE
    /\ idbVersion = DB_VERSION
    /\ idbStores = CreateTables("primary", {}).stores
    /\ patients = {PatientRecord("primary", f, id, 0) :
                       f \in OnePatient, id \in 1..(MaxPatients - 1)}
    /\ recordings = {RecordingRecord("primary", RecordingData(1, Blob3, 5), id, 0) :
                         id \in 1..(MaxRecordings - 1)}
    /\ assignments = {}
    /\ patKey = MaxPatients - 1
    /\ recKey = MaxRecordings - 1
    /\ now = 0
    /\ vr \in VoiceRecorders
    /\ last = [op |-> "initApp", arg |-> vr, ok |-> TRUE]
    /\ currentPatient = CapFresh.currentPatient
    /\ isEditing = FALSE
    /\ isRecording = CapFresh.isRecording
    /\ isPaused = CapFresh.isPaused
    /\ hasRecording = CapFresh.hasRecording
    /\ mediaRecorder = CapFresh.mediaRecorder
    /\ startTime = CapFresh.startTime
    /\ pausedDuration = CapFresh.pausedDuration
    /\ recordingDuration = CapFresh.recordingDuration
    /\ audioChunks = CapFresh.audioChunks
    /\ recordingBlob = CapFresh.recordingBlob
    /\ micPending = 0
    /\ stopPending = FALSE
    /\ pending = <<>>
    /\ orphaned = FALSE
    /\ startedFor = 0
    /\ carried = 0
    /\ recorded = 0
    /\ path = "idle"

\* the capture sessions of one page, with saving
NextCap ==
    \/ Tick
    \/ \E id \in PatientIds : OnSearchClicked(id)
    \/ OnNewPatientClicked
    \/ StartRecording
    \/ MicGranted /\ UNCHANGED hist
    \/ MicDenied
    \/ \E size \in TimesliceSizes : DataAvailable(size)
    \/ PauseRecording /\ UNCHANGED hist
    \/ ResumeRecording /\ UNCHANGED hist
    \/ StopRecording /\ UNCHANGED hist
    \/ \E size \in ChunkSizes : OnStop(size)
    \/ \E fail \in BOOLEAN : SaveRecordingToDatabase(fail)

SpecCap == InitCap /\ [][NextCap]_vars

\* The same sessions on a finer clock, with their history: `recorded` is the
\* clock time the session has spent recording and not paused, `path` tells
\* whether the session has so far gone recording, paused, resumed, stopped.
TimedTick ==
    /\ ClockTick(MaxCapTime)
    /\ recorded' = IF isRecording /\ ~isPaused THEN recorded + 1 ELSE recorded
    /\ UNCHANGED path

TimedMicGranted ==
    /\ MicGranted
    /\ UNCHANGED <<orphaned, startedFor, carried>>
    /\ recorded' = 0
    /\ path' = IF isRecording THEN "other" ELSE "recording"

TimedPause ==
    /\ PauseRecording
    /\ path' = IF ~CanPause(vr) THEN path
               ELSE IF path = "recording" THEN "paused" ELSE "other"
    /\ UNCHANGED recorded

TimedResume ==
    /\ ResumeRecording
    /\ path' = IF ~CanResume(vr) THEN path
               ELSE IF path = "paused" THEN "resumed" ELSE "other"
    /\ UNCHANGED recorded

TimedStop ==
    /\ StopRecording
    /\ path' = IF ~CanStop(vr) THEN path
               ELSE IF path = "resumed" THEN "stopped" ELSE "other"
    /\ UNCHANGED recorded

NextTime ==
    \/ TimedTick
    \/ \E id \in PatientIds : OnSearchClicked(id)
    \/ StartRecording
    \/ TimedMicGranted
    \/ MicDenied
    \/ \E size \in TimesliceSizes : DataAvailable(size)
    \/ TimedPause
    \/ TimedResume
    \/ TimedStop
    \/ \E size \in ChunkSizes : OnStop(size)

SpecTime == InitCap /\ [][NextTime]_vars

\* a capture saved, or a recording added directly, while patients are deleted
\* and the store is cleared behind the workflow's back
NextFlow ==
    \/ \E id \in LookupIds : OnSearchClicked(id)
    \/ \E id \in LookupIds : GetPatient(id, FALSE)
    \/ StartRecording
    \/ MicGranted /\ UNCHANGED hist
    \/ \E size \in TimesliceSizes : DataAvailable(size)
    \/ StopRecording /\ UNCHANGED hist
    \/ \E size \in ChunkSizes : OnStop(size)
    \/ SaveRecordingToDatabase(FALSE)
    \/ \E rd \in RecordingInputs : AddRecording(rd, FALSE)
    \/ \E id \in PatientIds : DeletePatient(id, 0)
    \/ ClearDatabase(0)

SpecFlow == InitCap /\ [][NextFlow]_vars

\* what can be typed into and picked in the patient form
Padded(s) == <<" ">> \o s \o <<" ">>
LongName == [i \in 1..(MAX_NAME_LENGTH + 1) |-> "x"]
FormNames == {Jo, Padded(Jo), <<"J">>, Padded(<<"J">>), LongName}
FormDates == {"", "1905-11-05", "1905-11-06", "2008-11-05", "2008-11-06"}
GoodForm == [firstName |-> Jo, lastName |-> Lee, dateOfBirth |-> "2008-11-05", gender |-> "F"]
FormInputs ==
    {[GoodForm EXCEPT !.firstName = n] : n \in FormNames}
    \cup {[GoodForm EXCEPT !.lastName = <<"L">>], [GoodForm EXCEPT !.gender = ""]}
    \cup {[GoodForm EXCEPT !.dateOfBirth = d] : d \in FormDates}

\* what an edit changes in the form
EditForms ==
    {GoodForm, [GoodForm EXCEPT !.firstName = Padded(Lee)],
     [GoodForm EXCEPT !.gender = "M"], [GoodForm EXCEPT !.gender = ""]}

\* the Patient Workflow: search, new patient, change, save
NextForm ==
    \/ \E id \in LookupIds : OnSearchClicked(id)
    \/ OnNewPatientClicked
    \/ OnUpdateClicked
    \/ \E form \in FormInputs, zone \in Zones, fail \in BOOLEAN :
           OnSaveClicked(form, zone, fail)

SpecForm == InitCap /\ [][NextForm]_vars

\* Start clicked again while the microphone request of the click before is
\* still pending
MaxStarts == MaxPending + 1

\* the capture sessions of one page, with the streams and MediaRecorders
\* the browser keeps live
NextStart ==
    \/ \E id \in PatientIds : OnSearchClicked(id)
    \/ StartClicked(MaxStarts)
    \/ MicGrantedLive
    \/ MicDenied
    \/ \E size \in TimesliceSizes : DataAvailable(size)
    \/ \E size \in TimesliceSizes : OrphanDataAvailable(size)
    \/ PauseRecording /\ UNCHANGED hist
    \/ ResumeRecording /\ UNCHANGED hist
    \/ StopRecording /\ UNCHANGED hist
    \/ \E size \in ChunkSizes : OnStop(size)

SpecStart == InitCap /\ [][NextStart]_vars

\* error.name of a rejected getUserMedia
MicErrors == {"NotAllowedError", "SecurityError", "NotFoundError", "AbortError"}

\* the capture sessions of one page, with the microphone refused for a reason
NextMic ==
    \/ \E id \in PatientIds : OnSearchClicked(id)
    \/ StartClicked(MaxStarts)
    \/ MicGranted /\ UNCHANGED hist
    \/ \E name \in MicErrors : MicRejected(name)
    \/ \E size \in TimesliceSizes : DataAvailable(size)
    \/ PauseRecording /\ UNCHANGED hist
    \/ StopRecording /\ UNCHANGED hist
    \/ \E size \in ChunkSizes : OnStop(size)
    \/ SaveRecordingToDatabase(FALSE)

SpecMic == InitCap /\ [][NextMic]_vars

\* the capture sessions of one page, with the page hidden, shown and left
NextPage ==
    \/ Tick
    \/ \E id \in PatientIds : OnSearchClicked(id)
    \/ StartRecording
    \/ MicGranted /\ UNCHANGED hist
    \/ \E size \in TimesliceSizes : DataAvailable(size)
    \/ PauseRecording /\ UNCHANGED hist
    \/ ResumeRecording /\ UNCHANGED hist
    \/ StopRecording /\ UNCHANGED hist
    \/ \E size \in ChunkSizes : OnStop(size)
    \/ \E fail \in BOOLEAN : SaveRecordingToDatabase(fail)
    \/ \E hidden \in BOOLEAN : OnVisibilityChange(hidden)
    \/ OnBeforeUnload

SpecPage == InitCap /\ [][NextPage]_vars

\* capture sessions while patients are created, searched and changed
NextOwner ==
    \/ \E f \in OnePatient : AddPatient(f, FALSE)
    \/ \E id \in PatientIds : OnSearchClicked(id)
    \/ OnNewPatientClicked
    \/ StartRecording
    \/ MicGrantedFor
    \/ \E size \in TimesliceSizes : DataAvailable(size)
    \/ StopRecording /\ UNCHANGED hist
    \/ \E size \in ChunkSizes : OnStop(size)
    \/ SaveRecordingToDatabase(FALSE)

SpecOwner == InitCap /\ [][NextOwner]_vars

\* capture sessions one after the other in one page
NextAgain ==
    \/ \E id \in PatientIds : OnSearchClicked(id)
    \/ StartRecording
    \/ MicGrantedOver
    \/ \E size \in TimesliceSizes : DataAvailable(size)
    \/ PauseRecording /\ UNCHANGED hist
    \/ ResumeRecording /\ UNCHANGED hist
    \/ StopRecording /\ UNCHANGED hist
    \/ \E size \in ChunkSizes : OnStop(size)

SpecAgain == InitCap /\ [][NextAgain]_vars

\* the Patient Workflow next to the store's own deletions
NextEdit ==
    \/ Tick
    \/ \E id \in PatientIds : OnSearchClicked(id)
    \/ OnNewPatientClicked
    \/ OnUpdateClicked
    \/ \E form \in EditForms, fail \in BOOLEAN : OnSaveClicked(form, "UTCorAhead", fail)
    \/ \E id \in PatientIds : DeletePatient(id, 0)
    \/ ClearDatabase(0)

SpecEdit == InitCap /\ [][NextEdit]_vars

\* the Patient Workflow with its store requests pending between the steps of
\* a handler
NextSave ==
    \/ \E id \in PatientIds : SearchRequested(id)
    \/ \E i \in 1..MaxInFlight : SearchAnswered(i)
    \/ OnNewPatientClicked
    \/ OnUpdateClicked
    \/ \E form \in EditForms : SaveRequested(form, "UTCorAhead")
    \/ \E i \in 1..MaxInFlight, fail \in BOOLEAN : SaveWritten(i, fail)
    \/ \E i \in 1..MaxInFlight, fail \in BOOLEAN : SaveReloaded(i, fail)

SpecSave == InitCap /\ [][NextSave]_vars

\* starting the application: page loads, opening the store, adding patients
NextBoot ==
    \/ \E i \in Impls : vr = "none" /\ LoadPage(i)
    \/ OpenDatabase
    \/ \E v \in VoiceRecorders : InitApp(v)
    \/ \E f \in OnePatient : AddPatient(f, FALSE)

SpecBoot == Init /\ [][NextBoot]_vars


\* ===================================================================== claims
\* what the patient form accepts for the four fields (names already trimmed)
ValidFields(f) ==
    /\ Trim(f.firstName) = f.firstName
    /\ Trim(f.lastName) = f.lastName
    /\ Len(f.firstName) >= MIN_NAME_LENGTH /\ Len(f.firstName) <= MAX_NAME_LENGTH
    /\ Len(f.lastName) >= MIN_NAME_LENGTH /\ Len(f.lastName) <= MAX_NAME_LENGTH
    /\ f.dateOfBirth # ""
    /\ f.gender # ""

\* C1: whenever addPatient was called with valid fields (and the storage engine
\* did not fail the request), it returned a new identifier, and getPatient of
\* that identifier, asked right away, returns one record with a creation
\* timestamp and the submitted firstName, lastName, dateOfBirth and gender.
C1_AddThenGet ==
    (last.op = "addPatient" /\ ValidFields(last.arg) /\ ~last.fail) =>
        /\ last.ok
        /\ last.ret \notin last.idsBefore
        /\ LET r == GetPatientRet(impl, patients, last.ret)
           IN  /\ Cardinality(r.recs) = 1
               /\ \A p \in r.recs :
                    /\ p.createdAt # NoTime
                    /\ p.firstName = last.arg.firstName
                    /\ p.lastName = last.arg.lastName
                    /\ p.dateOfBirth = last.arg.dateOfBirth
                    /\ p.gender = last.arg.gender

\* C1, the failing case reached: the extended store on a database that did not
\* exist, addPatient called with valid fields and rejected
C1_Reached ==
    /\ last.op = "addPatient" /\ ValidFields(last.arg) /\ ~last.fail
    /\ impl = "extended" /\ idbVersion = 0 /\ ~last.ok

\* C2: a getPatientRecordings(id, order) that resolves returns exactly the
\* stored recordings of patient id, each once, in non-decreasing capture time
\* for order 'asc' and non-increasing capture time for order 'desc'.
C2_SortedAsRequested ==
    (last.op = "getPatientRecordings" /\ last.ok) =>
        LET ret == last.ret
        IN  /\ Range(ret) = {r \in recordings : r.patientId = last.arg}
            /\ Len(ret) = Cardinality(Range(ret))
            /\ \A i, j \in 1..Len(ret) : i < j =>
                  IF last.order = "asc" THEN ret[i].dateTime <= ret[j].dateTime
                  ELSE ret[i].dateTime >= ret[j].dateTime

\* C2, the case reached: the primary prototype asked for the newest first of
\* two recordings of one patient captured at different times.
C2_Reached ==
    /\ last.op = "getPatientRecordings" /\ last.ok /\ last.order = "desc"
    /\ impl = "primary"
    /\ Len(last.ret) = 2
    /\ last.ret[1].dateTime < last.ret[2].dateTime

\* the properties of a search result r for term s and limit n over the stored
\* patients whose first name contains s, lower-cased
SearchProps(r, s, n) ==
    LET M == {p \in patients : Includes(ToLowerCase(p.firstName), ToLowerCase(s))}
    IN  /\ Range(r) \subseteq M
        /\ \A i, j \in 1..Len(r) : i < j =>
              r[i].createdAt >= r[j].createdAt /\ r[i] # r[j]
        /\ Len(r) = Min(n, Cardinality(M))
        /\ \A p \in M \ Range(r), q \in Range(r) : p.createdAt <= q.createdAt

\* C3 as stated: a search by first name s with limit n returns only stored
\* patients whose first name contains s case-insensitively, newest-created
\* first, the n newest of them.
C3_ContainsTermAsGiven ==
    (last.op = "searchPatients" /\ last.ok) =>
        SearchProps(last.ret, last.arg.firstName,
                    IF last.arg.limit = NoNumber THEN DefaultLimit ELSE last.arg.limit)

\* C3 amended: the same with s stripped of leading and trailing whitespace:
\* only patients whose first name contains trim(s) case-insensitively are
\* returned, newest-created first, the n newest of them.
C3_ContainsTrimmedTerm ==
    (last.op = "searchPatients" /\ last.ok) =>
        SearchProps(last.ret, Trim(last.arg.firstName),
                    IF last.arg.limit = NoNumber THEN DefaultLimit ELSE last.arg.limit)

\* C3, the case reached: a search whose term needed case folding, with two
\* stored matches of different age, cut to the newer one by the limit, while
\* another search term would not have matched
C3_Reached ==
    /\ last.op = "searchPatients" /\ last.ok
    /\ last.arg.firstName = <<"j", "O">> /\ last.arg.limit = 1
    /\ Len(last.ret) = 1
    /\ \E p \in patients : p # last.ret[1] /\ p.createdAt < last.ret[1].createdAt
                           /\ p.id < last.ret[1].id

\* C4: after a deletePatient(id) of the extended prototype that resolves, no
\* recording with patientId = id is stored, getPatientRecordings(id) gives the
\* empty list, getPatient(id) gives not-found, and every other patient and
\* every other patient's recording is stored as before.
C4_DeleteCascades ==
    (last.op = "deletePatient" /\ last.ok) =>
        /\ \A r \in recordings : r.patientId # last.arg
        /\ \A o \in SortOrders : PatientRecordingsRet(impl, recordings, last.arg, o) = <<>>
        /\ GetPatientRet(impl, patients, last.arg).recs = {}
        /\ GetPatientRet(impl, patients, last.arg).missing = NULL
        /\ patients = {p \in last.patientsBefore : p.id # last.arg}
        /\ recordings = {r \in last.recordingsBefore : r.patientId # last.arg}

\* C4, the case reached: the deleted patient had a recording, and another
\* patient with a recording of their own is still stored.
C4_Reached ==
    /\ last.op = "deletePatient" /\ last.ok
    /\ \E p \in last.patientsBefore : p.id = last.arg
    /\ \E r \in last.recordingsBefore : r.patientId = last.arg
    /\ \E p \in patients : \E r \in recordings : r.patientId = p.id

\* C5: deletePatient is all or nothing: after it either the patient and all
\* recordings that reference it are gone, or (it failed) the patients and the
\* recordings are exactly those stored before the call.
C5_DeleteAllOrNothing ==
    last.op = "deletePatient" =>
        \/ /\ last.ok
           /\ \A p \in patients : p.id # last.arg
           /\ \A r \in recordings : r.patientId # last.arg
        \/ /\ ~last.ok
           /\ patients = last.patientsBefore
           /\ recordings = last.recordingsBefore

\* C5, the case reached: the delete of the patient failed after the delete of
\* each of its recordings had been requested.
C5_Reached ==
    /\ last.op = "deletePatient" /\ ~last.ok
    /\ \E p \in patients : p.id = last.arg
    /\ LET k == Cardinality({r \in last.recordingsBefore : r.patientId = last.arg})
       IN  k >= 1 /\ last.failAt = k + 2

\* C6: a session that went idle -> recording -> paused -> recording -> stopped
\* ends with a recorded duration equal to the clock time it spent recording
\* and not paused (the two recording intervals, without the pause between).
C6_DurationIsRecordedTime ==
    path = "stopped" => recordingDuration = recorded

\* C6, the case reached: the README recorder started at 0, paused at 1,
\* resumed at 2 and stopped at 3.
C6_Reached ==
    /\ path = "stopped" /\ vr = "readme"
    /\ now = 3 /\ startTime = 2 /\ pausedDuration = 1 /\ recorded = 2

\* recording, paused, or idle (never started, or stopped)
Phase ==
    IF ~isRecording THEN "idle" ELSE IF isPaused THEN "paused" ELSE "recording"

\* C7: in every step, pause takes effect only from recording, resume only from
\* paused, stop only from recording or paused; a control triggered in any
\* other state leaves the recorder's state (flags, durations, buffered chunks,
\* pending blob) as it was.
C7_GuardsObeyed ==
    [][ /\ PauseRecording =>
              IF Phase = "recording" THEN Phase' = "paused"
              ELSE RecorderState' = RecorderState
        /\ ResumeRecording =>
              IF Phase = "paused" THEN Phase' = "recording"
              ELSE RecorderState' = RecorderState
        /\ StopRecording =>
              IF Phase \in {"recording", "paused"} THEN Phase' = "idle"
              ELSE RecorderState' = RecorderState ]_vars

\* C7, the case reached: pause was triggered on a paused recorder that had
\* buffered data and accumulated duration, and was refused.
C7_Reached ==
    /\ last.op = "pauseRecording" /\ ~last.ok
    /\ Phase = "paused"
    /\ pausedDuration > 0
    /\ audioChunks # <<>>

\* C8: a step changes the recordings store only if it is the save action, and
\* then it adds one record, under a fresh key, that carries the pending blob,
\* its size and duration, and the current patient's id; starting, pausing,
\* resuming and stopping never change the store.
C8_OnlySaveWrites ==
    [][ recordings' # recordings =>
          /\ \E fail \in BOOLEAN : SaveRecordingToDatabase(fail)
          /\ recordingBlob # NoBlob
          /\ currentPatient # NoPatient
          /\ \E r \in recordings' :
                /\ recordings' = recordings \cup {r}
                /\ r.id \notin {x.id : x \in recordings}
                /\ r.audioBlob = recordingBlob
                /\ r.fileSize = recordingBlob.size
                /\ r.duration = recordingDuration
                /\ r.patientId = currentPatient.id ]_vars

\* C8, the case reached: a save has stored the pending recording under the
\* key the store generated for it.
C8_Reached ==
    /\ last.op = "saveRecording" /\ last.ok
    /\ recordingBlob # NoBlob /\ recordingBlob.size > 0
    /\ \E r \in recordings : r.id = recKey /\ r.audioBlob = recordingBlob

\* C9: a getDatabaseStats() that resolves reports totalPatients = the number
\* of stored patients, totalRecordings = the number of stored recordings, and
\* a storage total (totalStorageBytes; the primary prototype names it
\* totalStorage) = the sum of the byte sizes of the stored audio payloads.
C9_StatsTotals ==
    (last.op = "getDatabaseStats" /\ last.ok) =>
        LET bytes == IF last.ret.totalStorageBytes # NoNumber
                     THEN last.ret.totalStorageBytes ELSE last.ret.totalStorage
        IN  /\ last.ret.totalPatients = Cardinality(patients)
            /\ last.ret.totalRecordings = Cardinality(recordings)
            /\ bytes = SumOver(recordings, [r \in recordings |-> r.audioBlob.size])

\* C9, the case reached: the statistics of the primary prototype over a
\* patient and a recording added without a fileSize.
C9_Reached ==
    /\ last.op = "getDatabaseStats" /\ last.ok
    /\ impl = "primary"
    /\ patients # {}
    /\ \E r \in recordings : r.fileSize = NoNumber /\ r.audioBlob.size > 0

\* C10: after a clearDatabase() that resolves, patients, recordings and test
\* assignments are all empty.
C10_ClearEmptiesAll ==
    (last.op = "clearDatabase" /\ last.ok) =>
        patients = {} /\ recordings = {} /\ assignments = {}

\* C10, the case reached: clearDatabase of the primary prototype resolved
\* although one of its clear requests failed.
C10_Reached ==
    /\ last.op = "clearDatabase" /\ last.ok /\ last.failAt # 0
    /\ impl = "primary"
    /\ patients # {} /\ recordings # {}

\* the object store n exists and has the indexes idx
StoreWithIndexes(n, idx) ==
    \E s \in idbStores : s.name = n /\ idx \subseteq s.indexes

\* C11: whenever the store is ready (the open succeeded), the patients, the
\* recordings and the test-assignments collections exist, with their indexes
\* by name and date of birth, by patient and capture time, and by patient.
C11_CollectionsExist ==
    (ready = "fulfilled" /\ dbOpen) =>
        /\ StoreWithIndexes(PATIENTS_TABLE, {"firstName", "lastName", "dateOfBirth"})
        /\ StoreWithIndexes(RECORDINGS_TABLE, {"patientId", "dateTime"})
        /\ StoreWithIndexes(ASSIGNMENTS_TABLE, {"patientId"})

\* C11, the failing case reached: the extended store has opened a database
\* that exists at the fixed version, and test-assignments is not there.
C11_Reached ==
    /\ last.op = "open" /\ last.ok /\ impl = "extended"
    /\ idbVersion = DB_VERSION
    /\ ~HasStores({ASSIGNMENTS_TABLE})

\* C12: a recording that has just been created, by addRecording called
\* directly or by the recorder's save, carries the identifier of a patient
\* that is stored at that moment.
C12_PatientExistsAtCreation ==
    /\ (last.op = "addRecording" /\ last.ok) =>
          \E p \in patients : p.id = last.arg.patientId
    /\ (last.op = "saveRecording" /\ last.ok) =>
          \E p \in patients : p.id = currentPatient.id

\* C12, the failing case reached: the recorder saved a recording for the
\* current patient after the store had been cleared.
C12_Reached ==
    /\ last.op = "saveRecording" /\ last.ok
    /\ currentPatient # NoPatient
    /\ patients = {}
    /\ \E r \in recordings : r.id = recKey /\ r.patientId = currentPatient.id

\* a stored recording r is among the recordings after the step, unchanged
Kept(r) == r \in recordings'

\* no recording after the step is an altered version of one stored before
NoneModified ==
    \A x \in recordings' : (\E r \in recordings : r.id = x.id) => x \in recordings

\* C13 as stated: in every step a stored recording stays as it is, unless the
\* step is clearDatabase or the extended deletePatient of its owning patient.
C13_OnlyClearOrCascade ==
    [][ /\ NoneModified
        /\ \A r \in recordings :
              \/ Kept(r)
              \/ last'.op = "clearDatabase"
              \/ impl = "extended" /\ last'.op = "deletePatient"
                                   /\ last'.arg = r.patientId ]_vars

\* C13 amended: in every step a stored recording stays as it is, unless the
\* step is clearDatabase, the extended deletePatient of its owning patient, or
\* the extended deleteRecording of its own identifier.
C13_OnlyClearCascadeOrDelete ==
    [][ /\ NoneModified
        /\ \A r \in recordings :
              \/ Kept(r)
              \/ last'.op = "clearDatabase"
              \/ impl = "extended" /\ last'.op = "deletePatient"
                                   /\ last'.arg = r.patientId
              \/ impl = "extended" /\ last'.op = "deleteRecording"
                                   /\ last'.arg = r.id ]_vars

\* C13, the case reached: deleteRecording removed one of two recordings of a
\* patient, and the other one is still stored.
C13_Reached ==
    /\ last.op = "deleteRecording" /\ last.ok
    /\ \A r \in recordings : r.id # last.arg
    /\ last.arg <= recKey /\ last.arg >= 1
    /\ \E r \in recordings : r.patientId = 1
    /\ Cardinality(recordings) = MaxRecordings - 1

\* C14: an addPatient whose first name or last name is empty has failed, and
\* the patients stored after it are those stored before it.
C14_NamelessRejected ==
    (last.op = "addPatient"
       /\ (last.arg.firstName = <<>> \/ last.arg.lastName = <<>>)) =>
        /\ ~last.ok
        /\ {p.id : p \in patients} = last.idsBefore

\* C14, the failing case reached: the primary prototype has stored a patient
\* without a first name.
C14_Reached ==
    /\ last.op = "addPatient" /\ last.ok /\ impl = "primary"
    /\ last.arg.firstName = <<>>
    /\ \E p \in patients : p.id = last.ret /\ p.firstName = <<>>
                           /\ p.id \notin last.idsBefore

\* C15: in every addRecording step: if the patient reference or the payload is
\* missing the call fails and the recordings are as before; if the call
\* succeeds it returns an identifier that no stored recording had, and the
\* recording stored under it carries the supplied dateTime, or the time of
\* the call when none was supplied.
C15_AddRecordingContract ==
    [][ \A rd \in ArgRecordings, fail \in BOOLEAN : AddRecording(rd, fail) =>
          /\ (rd.patientId = 0 \/ rd.audioBlob = NoBlob) =>
                ~last'.ok /\ recordings' = recordings
          /\ last'.ok =>
                /\ last'.ret \notin {r.id : r \in recordings}
                /\ \E r \in recordings' :
                      /\ r.id = last'.ret
                      /\ recordings' = recordings \cup {r}
                      /\ r.dateTime = IF rd.dateTime = NoTime THEN now
                                      ELSE rd.dateTime ]_vars

\* C15, the failing case reached: the primary prototype has stored a recording
\* without a patient reference, and stamped it with the time of the call
\* although a dateTime was supplied.
C15_Reached ==
    /\ last.op = "addRecording" /\ last.ok /\ impl = "primary"
    /\ last.arg.patientId = 0
    /\ last.arg.dateTime # NoTime
    /\ \E r \in recordings : r.id = last.ret /\ r.patientId = 0
                             /\ r.dateTime # last.arg.dateTime

\* C17: in every updatePatient step: the call succeeds only if the record's
\* identifier is a number under which a patient is stored; otherwise it fails
\* and the patients are as before; and in every case as many patients are
\* stored after the call as before it.
C17_UpdateNeverCreates ==
    [][ \A u \in UpdateInputs, fail \in BOOLEAN : UpdatePatient(u, fail) =>
          /\ last'.ok => u.id \in {p.id : p \in patients}
          /\ u.id \notin {p.id : p \in patients} =>
                ~last'.ok /\ patients' = patients
          /\ Cardinality(patients') = Cardinality(patients) ]_vars

\* C17, the failing case reached: an updatePatient with an identifier under
\* which nothing was stored has succeeded, and a patient is now stored
\* under it.
C17_Reached ==
    /\ last.op = "updatePatient" /\ last.ok /\ ~last.existed
    /\ last.arg.id >= 1
    /\ \E p \in patients : p.id = last.arg.id /\ p.firstName = last.arg.firstName

\* C16: in every step of an open store whose requests do not fail: a
\* getPatient for an identifier under which no patient is stored resolves,
\* with a not-found value and no record; and a search of the workflow for
\* such an identifier leaves the store and the current patient as they were.
C16_NotFoundIsNormal ==
    [][ /\ \A id \in LookupIds :
              (GetPatient(id, FALSE) /\ id \notin {p.id : p \in patients}) =>
                  /\ last'.ok
                  /\ last'.ret.recs = {}
                  /\ last'.ret.missing \in {NULL, UNDEFINED}
                  /\ patients' = patients /\ recordings' = recordings
        /\ \A id \in LookupIds :
              (OnSearchClicked(id) /\ id \notin {p.id : p \in patients}) =>
                  /\ currentPatient' = currentPatient
                  /\ patients' = patients /\ recordings' = recordings ]_vars

\* C16, the failing case reached: getPatient has rejected for an identifier
\* that is no number, on an open store.
C16_Reached ==
    /\ last.op = "getPatient" /\ ~last.ok /\ ~last.fail
    /\ last.arg = NotNumeric
    /\ ready = "fulfilled" /\ dbOpen

\* the operations whose single request may fail, and those with several
OneRequestOps ==
    {"addPatient", "getPatient", "updatePatient", "searchPatients", "addRecording",
     "getPatientRecordings", "deleteRecording", "getDatabaseStats",
     "addTestAssignment"}
ManyRequestOps == {"deletePatient", "clearDatabase"}

\* C18: an operation one of whose storage requests failed has rejected; no
\* operation has resolved after a request of its transaction failed.
C18_FailureRejects ==
    /\ last.op \in OneRequestOps => (last.fail => ~last.ok)
    /\ last.op \in ManyRequestOps => (last.failAt # 0 => ~last.ok)

\* C18, the failing case reached: the primary clearDatabase has resolved
\* although its first clear request failed, and the records are still stored.
C18_Reached ==
    /\ last.op = "clearDatabase" /\ last.ok /\ last.failAt = 1
    /\ impl = "primary"
    /\ patients # {} /\ recordings # {}

\* the operations of the store
StoreOps == OneRequestOps \cup ManyRequestOps

\* what the database holds
Stored == <<patients, recordings, assignments, patKey, recKey>>

\* C19: in every step, an operation of the store succeeds only if the open
\* has completed and the connection has not been closed; while the store is
\* opening no operation runs at all (unless its argument alone rejects it);
\* after a failed open and after close() an operation rejects; and stored
\* data changes only in a step of an open store.
C19_OnlyWhenReady ==
    [][ LET opened == ready = "fulfilled" /\ dbOpen
            called == last' # last /\ last'.op \in StoreOps
        IN  /\ called /\ last'.ok => opened
            /\ called /\ ready \in {"none", "pending"} => ~last'.ok /\ Stored' = Stored
            /\ called /\ ~opened => ~last'.ok /\ Stored' = Stored
            /\ Stored' # Stored => opened ]_vars

\* C19, the case reached: after close(), on a store that holds a patient, an
\* addPatient was rejected and the patient is still the only one stored.
C19_Reached ==
    /\ last.op = "addPatient" /\ ~last.ok
    /\ impl = "extended" /\ ready = "fulfilled" /\ ~dbOpen
    /\ Cardinality(patients) = 1
    /\ last.idsBefore = {p.id : p \in patients}

\* the age a date of birth gives today, by the calendar
CalendarAge(s) == Age(DateParts(s), Today)

\* a patient record as the form may write it
WrittenValid(p) ==
    /\ ValidFields(p)
    /\ p.dateOfBirth \in FormDates
    /\ CalendarAge(p.dateOfBirth) >= MIN_AGE /\ CalendarAge(p.dateOfBirth) <= MAX_AGE
    /\ p.gender # NULL

\* C20: in every step of the save handler, each patient record it wrote has
\* trimmed first and last names of MIN_NAME_LENGTH..MAX_NAME_LENGTH
\* characters, a date of birth that gives an age of MIN_AGE..MAX_AGE years
\* today, and a gender; and when validation failed, what the store holds is
\* unchanged.
C20_OnlyValidWritten ==
    [][ last'.op = "onSaveClicked" =>
          /\ \A p \in patients' \ patients : WrittenValid(p)
          /\ ~last'.valid => Stored' = Stored ]_vars

\* C20, the case reached: a form whose first name was typed with spaces
\* around it passed validation and was saved, and the store holds the record
\* under the new id with the name trimmed.
C20_Reached ==
    /\ last.op = "onSaveClicked" /\ last.valid /\ last.ok
    /\ last.arg.firstName # Trim(last.arg.firstName)
    /\ \E p \in patients : p.id = last.ret /\ p.firstName = Trim(last.arg.firstName)

\* C21: in every reachable state there is no live audio stream or
\* MediaRecorder besides the ones the recorder references: never two live
\* MediaRecorders or streams, never a live one that is unreferenced.
C21_OneCaptureSession == ~orphaned

\* C21, the case reached: Start was clicked a second time, with a patient
\* selected, while the microphone request of the first click was pending.
C21_Reached ==
    /\ last.op = "startRecording" /\ last.ok
    /\ micPending = MaxStarts
    /\ ~isRecording

C23_DurationAtStop ==
    [][ (isRecording /\ ~isRecording') => recordingDuration' = recorded ]_vars

\* C23, the case reached: the primary recorder started at 0, paused at 1 and
\* was stopped, still paused, at 2.
C23_Reached ==
    /\ last.op = "stopRecording" /\ last.ok /\ vr = "primary"
    /\ now = 2 /\ startTime = 0 /\ pausedDuration = 1 /\ recorded = 1

C25_HiddenPauses ==
    [][ (OnVisibilityChange(TRUE) /\ isRecording /\ ~isPaused) =>
            isRecording' /\ isPaused' /\ mediaRecorder' = "paused" ]_vars

\* C25, the case reached: the README recorder was recording when the page
\* became hidden, and the handler has run.
C25_Reached ==
    /\ last.op = "visibilitychange" /\ last.arg = TRUE
    /\ vr = "readme" /\ isRecording /\ mediaRecorder = "recording"

\* a recording has been captured; it is in the Record Store
Captured == recordingBlob # NoBlob

Saved == \E r \in recordings : r.audioBlob = recordingBlob

\* C26: in every step in which the page is about to unload, the warning
\* about an unsaved recording is asked for exactly when a recording has been
\* captured and is not in the Record Store: not when nothing was captured,
\* not once the captured recording has been saved.
C26_WarnsIffUnsaved ==
    [][ OnBeforeUnload => (last'.warned <=> (Captured /\ ~Saved)) ]_vars

\* C26, the case reached: the captured recording was saved successfully, and
\* then the page was about to unload.
C26_Reached ==
    /\ last.op = "beforeunload"
    /\ Captured /\ Saved

\* C27: in every step that saves a recording, the record is stored under
\* the patient who was the current patient when the capture started,
\* whatever was searched or changed in between.
C27_StoredUnderStartPatient ==
    [][ \A r \in recordings' \ recordings : r.patientId = startedFor ]_vars

\* C27, the case reached: a capture started for one patient was saved while
\* another patient was the current one.
C27_Reached ==
    /\ last.op = "saveRecording" /\ last.ok
    /\ startedFor # 0 /\ currentPatient # NoPatient /\ currentPatient.id # startedFor
    /\ ~isRecording /\ recordingBlob # NoBlob

\* the chunks delivered since the capture started
OwnChunks(chunks) == SubSeq(chunks, carried + 1, Len(chunks))

\* C28: in every step that produces a payload (processRecording run with a
\* buffer that is not empty, from onstop or from the README stopRecording),
\* the payload consists of exactly the chunks delivered during the capture
\* session that was stopped, and of no chunk delivered before it started.
C28_OnlyOwnChunks ==
    [][ LET onstop == stopPending /\ ~stopPending'
            stopped == vr = "readme" /\ isRecording /\ ~isRecording'
        IN  ((onstop \/ stopped) /\ Len(audioChunks') > 0) =>
                recordingBlob'.chunks = OwnChunks(audioChunks') ]_vars

\* C28, the case reached: a second capture session of the page has been
\* stopped and its payload produced, the first having delivered a chunk.
C28_Reached ==
    /\ carried > 0 /\ ~isRecording /\ ~stopPending
    /\ last.op = "stopRecording" /\ last.ok
    /\ recordingBlob # NoBlob

\* the four form fields of a record are the values collected from the form
HasFormValues(p, form) ==
    LET f == CollectFormData(form)
    IN  /\ p.firstName = f.firstName /\ p.lastName = f.lastName
        /\ p.dateOfBirth = f.dateOfBirth /\ p.gender = f.gender

\* C29: in every step in which the save handler ran in edit mode and its
\* store calls succeeded, the number of patient records is unchanged, the
\* store holds a record with the identifier and the creation timestamp of
\* the patient that was current, its first name, last name, date of birth and
\* gender are the values collected from the form, and edit mode is off.
C29_EditInPlace ==
    [][ (last'.op = "onSaveClicked" /\ last'.edited /\ last'.ok) =>
          /\ Cardinality(patients') = Cardinality(patients)
          /\ \E p \in patients' :
                 /\ p.id = currentPatient.id
                 /\ p.createdAt = currentPatient.createdAt
                 /\ HasFormValues(p, last'.arg)
          /\ ~isEditing' ]_vars

\* C29, the case reached: a stored patient was edited, with a first name
\* other than the stored one, and saved at a later time than it was created.
C29_Reached ==
    /\ last.op = "onSaveClicked" /\ last.edited /\ last.ok
    /\ ~isEditing
    /\ \E p \in patients :
           /\ p.id = last.ret /\ p.firstName = Lee
           /\ p.updatedAt > p.createdAt

\* C30: in every step that ends a save of the patient form whose store calls
\* all succeeded, no error banner is shown and the current patient is the
\* stored record with the identifier that save wrote, whatever search and
\* new-patient handlers ran while its store calls were pending.
C30_SavedIsCurrent ==
    [][ (last'.op = "saveDone" /\ last'.stored) =>
          /\ last'.banner # "error"
          /\ currentPatient' \in patients'
          /\ currentPatient'.id = last'.wrote ]_vars

\* C30, the case reached: a save in edit mode has ended, every store call
\* of it answered, and a search that was answered while its write was
\* pending had made another patient the current one.
C30_Reached ==
    /\ last.op = "saveDone" /\ last.stored /\ last.edited
    /\ pending = <<>>
    /\ currentPatient # NoPatient /\ currentPatient.id # last.wrote

====
